---- MODULE Spec2Model ----
(***************************************************************************)
(* Invoice-processor core: OCR-text normaliser, field extractor, line-item *)
(* parser, validator, confidence scorer and format classifier.             *)
(*                                                                         *)
(* Texts are TLA+ strings; a character is a string of length one.  Every   *)
(* regular expression of the source is an operator that matches the way    *)
(* Python's re does on the text (leftmost match, greedy quantifiers).      *)
(* Amounts are IEEE-754 doubles, kept exactly as a pair (c, e): the value  *)
(* is c/100 + e/(100 * 2^59), c the amount in cents and e the rounding     *)
(* error the double carries.                                               *)
(***************************************************************************)
EXTENDS Integers, Sequences, FiniteSets, TLC

VARIABLES
    pc,              \* where the run stands: "ocr", "detected", "extracted",
                     \* "validated", "scored", "assembled", or "raised"
                     \* after an exception
    ocr_text,        \* the OCR text of the invoice
    corrected_text,  \* the text normalize_ocr_errors returned
    stages,          \* the stages run so far, in order
    formats,         \* detect_invoice_format's dictionary after scoring
    format_info,     \* the FormatMatch it returned
    extracted_data,  \* the record of extract_receipt_fields_v3
    item_log,        \* what extract_line_items printed, row by row
    warnings,        \* the list validate_extraction returned
    confidence,      \* the score, in tenths of a point
    error,           \* the exception caught, if any
    uploaded_file,   \* app.py: the image in the file uploader
    session_state,   \* app.py: st.session_state, keys present only
    clicks,          \* app.py: the 'Extract Data' clicks and how each ended
    input_dir,       \* batch_process.py: the files of the input directory
    image_files,     \* batch_process.py: the image paths found
    results,         \* batch_process.py: the results collected
    summary,         \* batch_process.py: the summary reports written
    frames,          \* the locals of the core functions being executed
    returned         \* what every finished invocation was given and gave

\* the state of the batch runner
batch_state == <<input_dir, image_files, results, summary>>

\* the state of invocations made outside a run
calls_state == <<frames, returned>>

\* everything the callers of the core keep
callers == <<uploaded_file, session_state, clicks, batch_state, calls_state>>

vars == <<pc, ocr_text, corrected_text, stages, formats, format_info,
          extracted_data, item_log, warnings, confidence, error, callers>>

\* no caller has done anything yet
InitCallers ==
    /\ uploaded_file = << >>
    /\ session_state = [processed_count |-> 0]
    /\ clicks = << >>
    /\ input_dir = << >>
    /\ image_files = << >>
    /\ results = << >>
    /\ summary = << >>
    /\ frames = << >>
    /\ returned = {}

(***************************************************************************)
(* Characters and strings                                                  *)
(***************************************************************************)
None == << >>

Some(v) == <<v>>

Ch(s, i) == IF 1 <= i /\ i <= Len(s) THEN SubSeq(s, i, i) ELSE ""

Digits == {"0", "1", "2", "3", "4", "5", "6", "7", "8", "9"}

Whitespace == {" ", "\n", "\t"}

UpperAlpha == "ABCDEFGHIJKLMNOPQRSTUVWXYZ"

LowerAlpha == "abcdefghijklmnopqrstuvwxyz"

IsUpper(c) == \E k \in 1..26 : SubSeq(UpperAlpha, k, k) = c

IsLower(c) == \E k \in 1..26 : SubSeq(LowerAlpha, k, k) = c

LowerCh(c) ==
    IF IsUpper(c)
    THEN LET k == CHOOSE k \in 1..26 : SubSeq(UpperAlpha, k, k) = c
         IN  SubSeq(LowerAlpha, k, k)
    ELSE c

\* s[a..b] lower-cased, by halves
RECURSIVE LowerRange(_, _, _)
LowerRange(s, a, b) ==
    IF a > b THEN ""
    ELSE IF a = b THEN LowerCh(Ch(s, a))
    ELSE LowerRange(s, a, (a + b) \div 2)
         \o LowerRange(s, ((a + b) \div 2) + 1, b)

\* str.lower(), the folding re.IGNORECASE applies to ASCII text
Lower(s) == LowerRange(s, 1, Len(s))

\* the literal lit stands in s at position i
At(s, i, lit) ==
    /\ i >= 1
    /\ i + Len(lit) - 1 <= Len(s)
    /\ SubSeq(s, i, i + Len(lit) - 1) = lit

Min(S) == CHOOSE x \in S : \A y \in S : x <= y

\* first index after the maximal run of characters of class C starting at i
RECURSIVE SkipClass(_, _, _)
SkipClass(s, i, C) ==
    IF i <= Len(s) /\ Ch(s, i) \in C THEN SkipClass(s, i + 1, C) ELSE i

\* first index of the maximal run of characters of class C ending at i
RECURSIVE BackClass(_, _, _)
BackClass(s, i, C) ==
    IF i >= 1 /\ Ch(s, i) \in C THEN BackClass(s, i - 1, C) ELSE i + 1

\* index of the first occurrence of character c at or after i, 0 if none
IndexFrom(s, i, c) ==
    LET hits == {j \in i..Len(s) : Ch(s, j) = c}
    IN  IF hits = {} THEN 0 ELSE Min(hits)

\* substring test, Python's `lit in s`
Contains(s, lit) == \E i \in 1..Len(s) : At(s, i, lit)

\* str.split('\n')
RECURSIVE SplitFrom(_, _)
SplitFrom(s, i) ==
    LET k == IndexFrom(s, i, "\n")
    IN  IF k = 0 THEN <<SubSeq(s, i, Len(s))>>
        ELSE <<SubSeq(s, i, k - 1)>> \o SplitFrom(s, k + 1)

SplitLines(s) == SplitFrom(s, 1)

\* '\n'.join(lines)
RECURSIVE JoinLines(_)
JoinLines(lines) ==
    IF Len(lines) = 0 THEN ""
    ELSE IF Len(lines) = 1 THEN lines[1]
    ELSE lines[1] \o "\n" \o JoinLines(Tail(lines))

\* ''.join(pieces)
RECURSIVE Concat(_)
Concat(pieces) ==
    IF Len(pieces) = 0 THEN "" ELSE pieces[1] \o Concat(Tail(pieces))

\* str.strip()
Strip(s) ==
    LET a == SkipClass(s, 1, Whitespace)
        b == BackClass(s, Len(s), Whitespace) - 1
    IN  IF a > b THEN "" ELSE SubSeq(s, a, b)

\* int() of a run of decimal digits
RECURSIVE DigitsValue(_)
DigitsValue(s) ==
    IF Len(s) = 0 THEN 0
    ELSE 10 * DigitsValue(SubSeq(s, 1, Len(s) - 1))
         + (CHOOSE d \in 0..9 : Ch("0123456789", d + 1) = Ch(s, Len(s)))

(***************************************************************************)
(* IEEE-754 double arithmetic on amounts.  A double x near a whole number  *)
(* of cents is the pair [c, e] with x = (c * 2^59 + e) / (100 * 2^59).     *)
(* Round gives the double nearest (ties to even) to an exact value of that *)
(* form; the grid of doubles around c cents has spacing 2^GridExp(c) in    *)
(* units of 2^-59.                                                         *)
(***************************************************************************)
\* 2^k, and 2^k modulo m, by repeated squaring
RECURSIVE Pow2(_)
Pow2(k) ==
    IF k = 0 THEN 1
    ELSE IF k % 2 = 1 THEN 2 * Pow2(k - 1)
    ELSE Pow2(k \div 2) * Pow2(k \div 2)

RECURSIVE Pow2Mod(_, _)
Pow2Mod(k, m) ==
    IF k = 0 THEN 1 % m
    ELSE IF k % 2 = 1 THEN (2 * Pow2Mod(k - 1, m)) % m
    ELSE (Pow2Mod(k \div 2, m) * Pow2Mod(k \div 2, m)) % m

RECURSIVE GridExpFrom(_, _)
GridExpFrom(c, s) ==
    IF 100 * Pow2(s + 1) <= 128 * c THEN GridExpFrom(c, s + 1) ELSE s

GridExp(c) == GridExpFrom(c, 0)

Round(c, E) ==
    IF c = 0 THEN [c |-> 0, e |-> E]
    ELSE LET s0  == GridExp(c)
             s   == IF 100 * Pow2(s0) = 128 * c /\ E < 0 THEN s0 - 1 ELSE s0
             g   == Pow2(s)
             x   == ((c % 200) * Pow2Mod(59 - s, 200)) % 200
             r   == x % 100
             num == 2 * (r * g + E) + 100 * g
             d0  == num \div (200 * g)
             d   == IF num % (200 * g) = 0 /\ ((d0 % 2 = 1) # (x >= 100))
                    THEN d0 - 1 ELSE d0
         IN  [c |-> c, e |-> g * (100 * d - r)]

\* float("<c div 100>.<c mod 100>")
FloatOfCents(c) == Round(c, 0)

\* int * float
FloatMulInt(q, x) == Round(q * x.c, q * x.e)

\* float + float
FloatAdd(x, y) == Round(x.c + y.c, x.e + y.e)

\* x < y
FloatLess(x, y) == x.c < y.c \/ (x.c = y.c /\ x.e < y.e)

\* abs(x - y)
FloatAbsDiff(x, y) ==
    IF FloatLess(x, y) THEN Round(y.c - x.c, y.e - x.e)
    ELSE Round(x.c - y.c, x.e - y.e)

\* the literal 0.01
Tolerance == FloatOfCents(1)

FloatZero == [c |-> 0, e |-> 0]

(***************************************************************************)
(* normalize_ocr_errors                                                    *)
(***************************************************************************)
\* r'\s+([JlI])\s+\$' matched at i: the index of its '$', 0 when no match
\* the quantity pattern knowing the letter J only
QuantityLetterJOnly(s, i) ==
    LET j == SkipClass(s, i, Whitespace)
        k == SkipClass(s, j + 1, Whitespace)
    IN  IF j > i /\ Ch(s, j) = "J" /\ k > j + 1 /\ Ch(s, k) = "$"
        THEN k ELSE 0

QuantityLetterEnd(s, i) ==
    LET j == SkipClass(s, i, Whitespace)
        k == SkipClass(s, j + 1, Whitespace)
    IN  IF /\ j > i
           /\ Ch(s, j) \in {"J", "l", "I"}
           /\ k > j + 1
           /\ Ch(s, k) = "$"
        THEN k ELSE 0

\* the substitution made for the first match only, as with count=1
FixQuantityOnce(s, i) ==
    LET hits == {a \in i..Len(s) : QuantityLetterEnd(s, a) # 0}
    IN  IF hits = {} THEN SubSeq(s, i, Len(s))
        ELSE SubSeq(s, i, Min(hits) - 1) \o " 1 $"
             \o SubSeq(s, QuantityLetterEnd(s, Min(hits)) + 1, Len(s))

\* re.sub(r'\s+([JlI])\s+\$', r' 1 $', line), scanning from i: the text up
\* to the next match is copied, the match replaced, the scan resumed after it
RECURSIVE FixQuantityFrom(_, _)
FixQuantityFrom(s, i) ==
    LET hits == {a \in i..Len(s) : QuantityLetterEnd(s, a) # 0}
    IN  IF hits = {} THEN SubSeq(s, i, Len(s))
        ELSE SubSeq(s, i, Min(hits) - 1) \o " 1 $"
             \o FixQuantityFrom(s, QuantityLetterEnd(s, Min(hits)) + 1)

\* s[a..b].replace('O', '0'), by halves
RECURSIVE ReplaceO(_, _, _)
ReplaceO(s, a, b) ==
    IF a > b THEN ""
    ELSE IF a = b THEN (IF Ch(s, a) = "O" THEN "0" ELSE Ch(s, a))
    ELSE ReplaceO(s, a, (a + b) \div 2)
         \o ReplaceO(s, ((a + b) \div 2) + 1, b)

\* split on '$', fix O to 0 in every part but the first, join on '$'
FixPrices(s) ==
    LET d == IndexFrom(s, 1, "$")
    IN  IF d = 0 THEN s ELSE SubSeq(s, 1, d) \o ReplaceO(s, d + 1, Len(s))

IsCandidateLine(line) == Contains(line, "$") /\ ~At(line, 1, "Total")

NormalizeLine(line) ==
    IF IsCandidateLine(line) THEN FixPrices(FixQuantityFrom(line, 1))
    ELSE line

normalize_ocr_errors(text) ==
    LET lines == SplitLines(text)
    IN  JoinLines([i \in 1..Len(lines) |-> NormalizeLine(lines[i])])

(***************************************************************************)
(* extract_line_items                                                      *)
(***************************************************************************)
\* r'\$?(\d+\.\d{2})' ending at index e of s: the index of the first digit
\* of the price, 0 when the text ending at e is not a price
PriceStart(s, e) ==
    LET d == BackClass(s, e - 3, Digits)
    IN  IF /\ e >= 4
           /\ Ch(s, e) \in Digits
           /\ Ch(s, e - 1) \in Digits
           /\ Ch(s, e - 2) = "."
           /\ d <= e - 3
        THEN d ELSE 0

\* index of the last character before the price starting at d, its
\* optional '$' skipped
BeforePrice(s, d) == IF Ch(s, d - 1) = "$" THEN d - 2 ELSE d - 1

\* float(match.group(n)) of a price s[d..e]
PriceValue(s, d, e) ==
    FloatOfCents(100 * DigitsValue(SubSeq(s, d, e - 3))
                 + DigitsValue(SubSeq(s, e - 1, e)))

NoRow == [matched |-> FALSE, description |-> "", quantity |-> 0,
          unit_price |-> FloatZero, total |-> FloatZero]

\* re.match(r'^(.+?)\s+(\d+)\s+\$?(\d+\.\d{2})\s+\$?(\d+\.\d{2})$', line):
\* the pattern is anchored at both ends, so the line is read from its end
MatchItemPattern(line) ==
    LET e3 == Len(line)
        d3 == PriceStart(line, e3)
        p3 == BeforePrice(line, d3)
        w3 == BackClass(line, p3, Whitespace)
        e2 == w3 - 1
        d2 == PriceStart(line, e2)
        p2 == BeforePrice(line, d2)
        w2 == BackClass(line, p2, Whitespace)
        e1 == w2 - 1
        d1 == BackClass(line, e1, Digits)
        w1 == BackClass(line, d1 - 1, Whitespace)
    IN  IF /\ d3 # 0 /\ w3 <= p3
           /\ d2 # 0 /\ w2 <= p2
           /\ d1 <= e1 /\ w1 <= d1 - 1
           /\ w1 - 1 >= 1
        THEN [matched |-> TRUE,
              description |-> Strip(SubSeq(line, 1, w1 - 1)),
              quantity |-> DigitsValue(SubSeq(line, d1, e1)),
              unit_price |-> PriceValue(line, d2, e2),
              total |-> PriceValue(line, d3, e3)]
        ELSE NoRow

\* abs(expected_total - total) < 0.01
\* the row test with a tolerance of three cents instead of one
RowArithmeticLoose(quantity, unit_price, total) ==
    FloatLess(FloatAbsDiff(FloatMulInt(quantity, unit_price), total),
              FloatOfCents(3))

RowArithmeticOk(quantity, unit_price, total) ==
    FloatLess(FloatAbsDiff(FloatMulInt(quantity, unit_price), total),
              Tolerance)

IsHeaderLine(line) ==
    Contains(line, "Item Description") /\ Contains(line, "Quantity")

\* the footer test looking for "Total" alone, which the header line has too
IsFooterLineAnyTotal(line) == Contains(line, "Total")

IsFooterLine(line) == Contains(line, "Total Amount:")

\* the boundary loop over enumerate(lines), from 0-based index i, with the
\* table_start found so far; table_end stays -1 unless the loop breaks
RECURSIVE TableBounds(_, _, _)
TableBounds(lines, i, table_start) ==
    IF i >= Len(lines) THEN [table_start |-> table_start, table_end |-> -1]
    ELSE LET start == IF IsHeaderLine(lines[i + 1]) THEN i + 1
                      ELSE table_start
         IN  IF IsFooterLine(lines[i + 1])
             THEN [table_start |-> start, table_end |-> i]
             ELSE TableBounds(lines, i + 1, start)

\* one pass of the row loop: what the loop does with lines[i]
RowOutcome(raw) ==
    LET line == Strip(raw)
        m    == MatchItemPattern(line)
    IN  IF line = "" THEN << >>
        ELSE IF ~m.matched
        THEN <<[kind |-> "no_match", line |-> line, row |-> NoRow]>>
        ELSE IF RowArithmeticOk(m.quantity, m.unit_price, m.total)
        THEN <<[kind |-> "item", line |-> line, row |-> m]>>
        ELSE <<[kind |-> "math_error", line |-> line, row |-> m]>>

RECURSIVE RowLoop(_, _, _)
RowLoop(lines, i, stop) ==
    IF i >= stop THEN << >>
    ELSE RowOutcome(lines[i + 1]) \o RowLoop(lines, i + 1, stop)

\* the row loop run over range(table_start, table_end) also when no footer
\* was found
ItemLogFooterRequired(text) ==
    LET lines == SplitLines(text)
        b     == TableBounds(lines, 0, -1)
    IN  IF b.table_start = -1 THEN << >>
        ELSE RowLoop(lines, b.table_start, b.table_end)

\* every row the loop looked at, in order, with what it printed about it
ItemLog(text) ==
    LET lines == SplitLines(text)
        b     == TableBounds(lines, 0, -1)
    IN  IF b.table_start = -1 THEN << >>
        ELSE RowLoop(lines, b.table_start,
                     IF b.table_end # -1 THEN b.table_end ELSE Len(lines))

LineItem(m) ==
    [description |-> m.description, quantity |-> m.quantity,
     unit_price |-> m.unit_price, total |-> m.total]

\* the items list keeping the rows that failed the arithmetic too
RECURSIVE AcceptedItemsAll(_)
AcceptedItemsAll(log) ==
    IF Len(log) = 0 THEN << >>
    ELSE (IF log[1].kind \in {"item", "math_error"}
          THEN <<LineItem(log[1].row)>> ELSE << >>)
         \o AcceptedItemsAll(Tail(log))

RECURSIVE AcceptedItems(_)
AcceptedItems(log) ==
    IF Len(log) = 0 THEN << >>
    ELSE (IF log[1].kind = "item" THEN <<LineItem(log[1].row)>> ELSE << >>)
         \o AcceptedItems(Tail(log))

extract_line_items(text) == AcceptedItems(ItemLog(text))

(***************************************************************************)
(* extract_receipt_fields_v3: the scalar field patterns.  Every matcher    *)
(* takes the text and a start index and yields the captured group(s), or   *)
(* None when the pattern does not match there; Search picks the leftmost   *)
(* start, as re.search does.  lt is the text lower-cased (re.IGNORECASE).  *)
(***************************************************************************)
Letters == {Ch(UpperAlpha, k) : k \in 1..26} \cup {Ch(LowerAlpha, k) : k \in 1..26}

UpperSet == {Ch(UpperAlpha, k) : k \in 1..26}

LowerSet == {Ch(LowerAlpha, k) : k \in 1..26}

\* r'Receipt\s*#(\d+)'
ReceiptAt(text, lt, i) ==
    LET j == SkipClass(text, i + 7, Whitespace)
        k == SkipClass(text, j + 1, Digits)
    IN  IF At(lt, i, "receipt") /\ Ch(text, j) = "#" /\ k > j + 1
        THEN Some(SubSeq(text, j + 1, k - 1)) ELSE None

Months == <<"January", "February", "March", "April", "May", "June", "July",
            "August", "September", "October", "November", "December">>

\* r'(January|...|December)\s+(\d{1,2}),?\s+(\d{4})' at i, the month names
\* as spelled in names: <<month index, day, year>>, or None
DateParts(text, i, names) ==
    IF \E m \in 1..12 : At(text, i, names[m])
    THEN LET m == CHOOSE m \in 1..12 : At(text, i, names[m])
             a == i + Len(names[m])
             b == SkipClass(text, a, Whitespace)
             c == SkipClass(text, b, Digits)
             d == IF Ch(text, c) = "," THEN c + 1 ELSE c
             f == SkipClass(text, d, Whitespace)
             g == SkipClass(text, f, Digits)
         IN  IF /\ b > a
                /\ c - b \in {1, 2}
                /\ f > d
                /\ g - f >= 4
             THEN Some(<<m, SubSeq(text, b, c - 1), SubSeq(text, f, f + 3)>>)
             ELSE None
    ELSE None

\* the date rebuilt as f"{group(1)} {group(2)}, {group(3)}"
DateAt(text, i) ==
    LET p == DateParts(text, i, Months)
    IN  IF p = None THEN None
        ELSE Some(Months[p[1][1]] \o " " \o p[1][2] \o ", " \o p[1][3])

\* index after one r'[A-Z][a-z]+' starting at i, 0 when there is none
WordEnd(text, i) ==
    LET k == SkipClass(text, i + 1, LowerSet)
    IN  IF Ch(text, i) \in UpperSet /\ k > i + 1 THEN k ELSE 0

\* index after the last repetition of r'(?:\s+[A-Z][a-z]+)' starting at i
RECURSIVE MoreWordsEnd(_, _)
MoreWordsEnd(text, i) ==
    LET w == SkipClass(text, i, Whitespace)
        k == WordEnd(text, w)
    IN  IF w > i /\ k # 0 THEN MoreWordsEnd(text, k) ELSE i

\* r'Bill\s+To:\s*\n?\s*([A-Z][a-z]+(?:\s+[A-Z][a-z]+)+)', group stripped
NameAt(text, i) ==
    LET a == SkipClass(text, i + 4, Whitespace)
        b == SkipClass(text, a + 3, Whitespace)
        c == WordEnd(text, b)
        d == MoreWordsEnd(text, c)
    IN  IF /\ At(text, i, "Bill") /\ a > i + 4 /\ At(text, a, "To:")
           /\ c # 0 /\ d > c
        THEN Some(Strip(SubSeq(text, b, d - 1))) ELSE None

LocalChars == Letters \cup Digits \cup {".", "_", "%", "+", "-"}

DomainChars == Letters \cup Digits \cup {".", "-"}

\* r'([a-zA-Z0-9._%+-]+@[a-zA-Z0-9.-]+\.[a-zA-Z]{2,})' around the '@' at
\* index a, its local part starting no earlier than lo: [from, to] of the
\* match, to = 0 when there is none
EmailAround(text, a, lo) ==
    LET s0   == BackClass(text, a - 1, LocalChars)
        from == IF s0 < lo THEN lo ELSE s0
        last == SkipClass(text, a + 1, DomainChars) - 1
        dots == {p \in (a + 2)..last :
                    /\ Ch(text, p) = "."
                    /\ Ch(text, p + 1) \in Letters
                    /\ Ch(text, p + 2) \in Letters}
    IN  IF from <= a - 1 /\ dots # {}
        THEN LET p == CHOOSE p \in dots : \A o \in dots : o <= p
             IN  [from |-> from, to |-> SkipClass(text, p + 1, Letters) - 1]
        ELSE [from |-> from, to |-> 0]

\* re.findall(email_pattern, text) from index i on
RECURSIVE FindEmails(_, _)
FindEmails(text, i) ==
    LET a == IndexFrom(text, i, "@")
        m == EmailAround(text, a, i)
    IN  IF a = 0 THEN << >>
        ELSE IF m.to # 0
        THEN <<SubSeq(text, m.from, m.to)>> \o FindEmails(text, m.to + 1)
        ELSE FindEmails(text, a + 1)

\* the first email that does not start with 'inquire'
RECURSIVE FirstCustomerEmail(_)
FirstCustomerEmail(emails) ==
    IF Len(emails) = 0 THEN None
    ELSE IF ~At(emails[1], 1, "inquire") THEN Some(emails[1])
    ELSE FirstCustomerEmail(Tail(emails))

\* r'Total\s+Amount:\s*\$?([\d,]+\.?\d*)': the group
TotalAt(text, lt, i) ==
    LET a == SkipClass(text, i + 5, Whitespace)
        b == SkipClass(text, a + 7, Whitespace)
        c == IF Ch(text, b) = "$" THEN b + 1 ELSE b
        d == SkipClass(text, c, Digits \cup {","})
        f == IF Ch(text, d) = "." THEN d + 1 ELSE d
        g == SkipClass(text, f, Digits)
    IN  IF /\ At(lt, i, "total") /\ a > i + 5 /\ At(lt, a, "amount:")
           /\ d > c
        THEN Some(SubSeq(text, c, g - 1)) ELSE None

\* amount_str.replace(',', '')
RECURSIVE RemoveCommas(_, _)
RemoveCommas(s, i) ==
    IF i > Len(s) THEN ""
    ELSE (IF Ch(s, i) = "," THEN "" ELSE Ch(s, i)) \o RemoveCommas(s, i + 1)

\* float(amount_str) of digits, an optional point and digits: ValueError
\* when there is no digit at all.  Amounts carry at most two decimals.
ParseAmount(amount_str) ==
    LET a    == SkipClass(amount_str, 1, Digits)
        int  == SubSeq(amount_str, 1, a - 1)
        frac == SubSeq(amount_str, a + 1, Len(amount_str))
        two  == SubSeq(frac \o "00", 1, 2)
    IN  IF int = "" /\ frac = "" THEN [raised |-> TRUE, value |-> FloatZero]
        ELSE [raised |-> FALSE,
              value |-> FloatOfCents(100 * DigitsValue(int) + DigitsValue(two))]

\* r'Payment\s+Method:\s*([^\n]+)': the group, stripped.  \s* is greedy
\* and also takes line breaks; when it runs to the end of the text the
\* match backtracks to the last blank of the run that is no line break.
PaymentAt(text, lt, i) ==
    LET a == SkipClass(text, i + 7, Whitespace)
        b == SkipClass(text, a + 7, Whitespace)
        n == IndexFrom(text, b, "\n")
        blanks == {p \in (a + 7)..(b - 1) : Ch(text, p) # "\n"}
    IN  IF ~(At(lt, i, "payment") /\ a > i + 7 /\ At(lt, a, "method:"))
        THEN None
        ELSE IF b <= Len(text)
        THEN Some(Strip(SubSeq(text, b, IF n = 0 THEN Len(text) ELSE n - 1)))
        ELSE IF blanks # {} THEN Some("")
        ELSE None

\* re.search: the match at the leftmost index that has one
SearchReceipt(text, lt) ==
    LET hits == {i \in 1..Len(text) : ReceiptAt(text, lt, i) # None}
    IN  IF hits = {} THEN None ELSE ReceiptAt(text, lt, Min(hits))

\* re.search: the match at the leftmost index that has one
SearchDate(text) ==
    LET hits == {i \in 1..Len(text) : DateAt(text, i) # None}
    IN  IF hits = {} THEN None ELSE DateAt(text, Min(hits))

\* re.search: the match at the leftmost index that has one
SearchName(text) ==
    LET hits == {i \in 1..Len(text) : NameAt(text, i) # None}
    IN  IF hits = {} THEN None ELSE NameAt(text, Min(hits))

\* re.search: the match at the leftmost index that has one
SearchTotal(text, lt) ==
    LET hits == {i \in 1..Len(text) : TotalAt(text, lt, i) # None}
    IN  IF hits = {} THEN None ELSE TotalAt(text, lt, Min(hits))

\* re.search: the match at the leftmost index that has one
SearchPayment(text, lt) ==
    LET hits == {i \in 1..Len(text) : PaymentAt(text, lt, i) # None}
    IN  IF hits = {} THEN None ELSE PaymentAt(text, lt, Min(hits))

\* the record of extract_receipt_fields_v3, or the exception it raises
extract_receipt_fields_v3(raw) ==
    LET text   == normalize_ocr_errors(raw)
        lt     == Lower(text)
        total  == SearchTotal(text, lt)
        amount == IF total = None THEN [raised |-> FALSE, value |-> FloatZero]
                  ELSE ParseAmount(RemoveCommas(total[1], 1))
    IN  IF amount.raised THEN [raised |-> TRUE, error |-> "ValueError"]
        ELSE [raised |-> FALSE,
              data |-> [receipt_number |-> SearchReceipt(text, lt),
                        date |-> SearchDate(text),
                        bill_to |-> [name |-> SearchName(text),
                                     email |-> FirstCustomerEmail(
                                                  FindEmails(text, 1))],
                        items |-> extract_line_items(text),
                        total_amount |-> IF total = None THEN None
                                         ELSE Some(amount.value),
                        payment_method |-> SearchPayment(text, lt),
                        ocr_corrections_applied |-> TRUE]]

(***************************************************************************)
(* validate_extraction                                                     *)
(***************************************************************************)
\* Python truthiness of an optional string and of an optional float
TruthyStr(v) == v # None /\ v[1] # ""

\* the truth test of a number taken as "is not None"
TruthyNumNotNone(v) == v # None

TruthyNum(v) == v # None /\ v[1] # FloatZero

RECURSIVE DigitStr(_)
DigitStr(n) ==
    IF n < 10 THEN Ch("0123456789", n + 1)
    ELSE DigitStr(n \div 10) \o Ch("0123456789", (n % 10) + 1)

\* an amount of c cents as printed with two decimals
CentsStr(c) ==
    DigitStr(c \div 100) \o "." \o DigitStr((c % 100) \div 10)
    \o DigitStr(c % 10)

\* f"{x:.2f}"
Format2f(x) == CentsStr(x.c)

\* sum(item['total'] for item in items), added left to right
RECURSIVE SumTotals(_, _)
SumTotals(items, n) ==
    IF n = 0 THEN FloatZero
    ELSE IF n = 1 THEN items[1].total
    ELSE FloatAdd(SumTotals(items, n - 1), items[n].total)

\* difference > 0.01
ExceedsTolerance(difference) == FloatLess(Tolerance, difference)

\* the guard of check 1: data['items'] and data['total_amount']
SumCheckApplies(data) == Len(data.items) > 0 /\ TruthyNum(data.total_amount)

\* check 1; the warning text without its leading warning sign
LineItemsSumWarnings(data) ==
    IF SumCheckApplies(data)
    THEN LET items_sum  == SumTotals(data.items, Len(data.items))
             difference == FloatAbsDiff(items_sum, data.total_amount[1])
         IN  IF ExceedsTolerance(difference)
             THEN <<"Line items sum ($" \o Format2f(items_sum)
                    \o ") doesn't match total ($"
                    \o Format2f(data.total_amount[1]) \o ")">>
             ELSE << >>
    ELSE << >>

\* check 2 passing an email that has either of the two characters
EmailWarningsEither(data) ==
    IF TruthyStr(data.bill_to.email)
    THEN IF Contains(data.bill_to.email[1], "@")
            \/ Contains(data.bill_to.email[1], ".")
         THEN << >>
         ELSE <<"Email might be invalid: " \o data.bill_to.email[1]>>
    ELSE << >>

\* check 2
EmailWarnings(data) ==
    IF TruthyStr(data.bill_to.email)
    THEN IF Contains(data.bill_to.email[1], "@")
            /\ Contains(data.bill_to.email[1], ".")
         THEN << >>
         ELSE <<"Email might be invalid: " \o data.bill_to.email[1]>>
    ELSE << >>

\* re.search(r'(\d{4})', date): the start of the first four digits, 0 if none
RECURSIVE YearIndex(_, _)
YearIndex(date, i) ==
    IF i + 3 > Len(date) THEN 0
    ELSE IF \A k \in 0..3 : Ch(date, i + k) \in Digits THEN i
    ELSE YearIndex(date, i + 1)

\* check 3
DateWarnings(data) ==
    IF TruthyStr(data.date)
    THEN LET i    == YearIndex(data.date[1], 1)
             year == DigitsValue(SubSeq(data.date[1], i, i + 3))
         IN  IF i # 0 /\ ~(2020 <= year /\ year <= 2100)
             THEN <<"Unusual year in date: " \o DigitStr(year)>>
             ELSE << >>
    ELSE << >>

\* data[key] raises KeyError unless the record carries the key
HasKey(data, key) == key \in DOMAIN data

\* data[key] = value on a dictionary
WithKey(data, key, value) ==
    [k \in DOMAIN data \cup {key} |-> IF k = key THEN value ELSE data[k]]

\* the exception the subscripts of the three checks raise on the record, in
\* the order the checks read them; None if they raise none
ValidationError(data) ==
    IF ~HasKey(data, "items") THEN Some("KeyError")
    ELSE IF Len(data.items) > 0 /\ ~HasKey(data, "total_amount")
    THEN Some("KeyError")
    ELSE IF ~HasKey(data, "bill_to") THEN Some("KeyError")
    ELSE IF DOMAIN data.bill_to = {} THEN Some("TypeError")
    ELSE IF ~HasKey(data.bill_to, "email") THEN Some("KeyError")
    ELSE IF ~HasKey(data, "date") THEN Some("KeyError")
    ELSE None

validate_extraction(data) ==
    LineItemsSumWarnings(data) \o EmailWarnings(data) \o DateWarnings(data)

(***************************************************************************)
(* calculate_confidence_score.  Scores are counted in tenths of a point,   *)
(* so that the 2.5 points an item adds are the whole number 25.            *)
(***************************************************************************)
fields_to_check ==
    <<[field |-> "receipt_number", weight |-> 200],
      [field |-> "date", weight |-> 200],
      [field |-> "bill_to.name", weight |-> 150],
      [field |-> "bill_to.email", weight |-> 150],
      [field |-> "total_amount", weight |-> 200],
      [field |-> "payment_method", weight |-> 100]>>

\* `if value:` for the value the field path leads to
FieldTruthy(data, field) ==
    CASE field = "receipt_number" -> TruthyStr(data.receipt_number)
      [] field = "date"           -> TruthyStr(data.date)
      [] field = "bill_to.name"   -> TruthyStr(data.bill_to.name)
      [] field = "bill_to.email"  -> TruthyStr(data.bill_to.email)
      [] field = "total_amount"   -> TruthyNum(data.total_amount)
      [] field = "payment_method" -> TruthyStr(data.payment_method)

RECURSIVE FieldScore(_, _)
FieldScore(data, n) ==
    IF n = 0 THEN 0
    ELSE FieldScore(data, n - 1)
         + (IF FieldTruthy(data, fields_to_check[n].field)
            THEN fields_to_check[n].weight ELSE 0)

\* the bonus counting 5 for an item instead of 2.5
ItemBonusFive(items) ==
    IF Len(items) > 0
    THEN (IF Len(items) * 50 < 100 THEN Len(items) * 50 ELSE 100)
    ELSE 0

\* min(len(data['items']) * 2.5, 10), added when there are items
ItemBonus(items) ==
    IF Len(items) > 0
    THEN (IF Len(items) * 25 < 100 THEN Len(items) * 25 ELSE 100)
    ELSE 0

\* min(score, 100)
\* the score returned without the final min(score, 100)
ClampScoreMissing(score) == score

ClampScore(score) == IF score < 1000 THEN score ELSE 1000

calculate_confidence_score(data) ==
    ClampScore(FieldScore(data, Len(fields_to_check)) + ItemBonus(data.items))

(***************************************************************************)
(* detect_invoice_format.  A pattern is a sequence of elements: a literal  *)
(* (lower case, the search being case-insensitive), "<ws*>" for \s*,       *)
(* "<ws+>" for \s+, "<d+>" for \d+, "<d2>" and "<d4>" for \d{2} and \d{4},   *)
(* "<date>" for the written-month date.  Confidences are in tenths of a    *)
(* point.                                                                  *)
(***************************************************************************)
LowerMonths == [m \in 1..12 |-> Lower(Months[m])]

DigitCount(el) == CASE el = "<d+>" -> 1 [] el = "<d2>" -> 2 [] el = "<d4>" -> 4

\* the elements of pat from the k-th on match lt at index i
RECURSIVE MatchesFrom(_, _, _, _)
MatchesFrom(lt, i, pat, k) ==
    IF k > Len(pat) THEN TRUE
    ELSE LET el == pat[k]
         IN  CASE el = "<ws*>" ->
                    MatchesFrom(lt, SkipClass(lt, i, Whitespace), pat, k + 1)
               [] el = "<ws+>" ->
                    /\ Ch(lt, i) \in Whitespace
                    /\ MatchesFrom(lt, SkipClass(lt, i, Whitespace), pat, k + 1)
               [] el \in {"<d+>", "<d2>", "<d4>"} ->
                    /\ \A n \in 0..(DigitCount(el) - 1) : Ch(lt, i + n) \in Digits
                    /\ MatchesFrom(lt, i + DigitCount(el), pat, k + 1)
               [] el = "<date>" ->
                    /\ DateParts(lt, i, LowerMonths) # None
                    /\ k = Len(pat)
               [] OTHER ->
                    /\ At(lt, i, el)
                    /\ MatchesFrom(lt, i + Len(el), pat, k + 1)

\* re.search(pattern, ocr_text, re.IGNORECASE) finds a match
Found(lt, pat) == \E i \in 1..Len(lt) : MatchesFrom(lt, i, pat, 1)

template_a_patterns ==
    <<[pattern |-> <<"receipt", "<ws*>", "#", "<d+>">>,
       indicator |-> "Receipt # format"],
      [pattern |-> <<"<date>">>, indicator |-> "Written month format"],
      [pattern |-> <<"total", "<ws+>", "amount:">>,
       indicator |-> "Total Amount: label"],
      [pattern |-> <<"payment", "<ws+>", "method:">>,
       indicator |-> "Payment Method: label"],
      [pattern |-> <<"item", "<ws+>", "description", "<ws+>", "quantity">>,
       indicator |-> "Standard table header"]>>

template_b_patterns ==
    <<[pattern |-> <<"receipt", "<ws*>", "#">>,
       indicator |-> "RECEIPT # (uppercase)"],
      [pattern |-> <<"receipt", "<ws+>", "date">>,
       indicator |-> "RECEIPT DATE label"],
      [pattern |-> <<"<d2>", "/", "<d2>", "/", "<d4>">>,
       indicator |-> "Date format DD/MM/YYYY"],
      [pattern |-> <<"bill", "<ws*>", "to">>, indicator |-> "BILL TO (uppercase)"],
      [pattern |-> <<"ship", "<ws*>", "to">>, indicator |-> "SHIP TO label"],
      [pattern |-> <<"qty", "<ws+>", "description">>,
       indicator |-> "QTY DESCRIPTION header"],
      [pattern |-> <<"unit", "<ws+>", "price">>, indicator |-> "UNIT PRICE column"],
      [pattern |-> <<"east", "<ws+>", "repair">>, indicator |-> "East Repair Inc."]>>

\* the indicators of the first n patterns found in the text, in order
RECURSIVE Indicators(_, _, _)
Indicators(lt, patterns, n) ==
    IF n = 0 THEN << >>
    ELSE Indicators(lt, patterns, n - 1)
         \o (IF Found(lt, patterns[n].pattern)
             THEN <<patterns[n].indicator>> ELSE << >>)

\* the two templates appending to one and the same indicators list
ScoredFormatsSharedList(text) ==
    LET lt == Lower(text)
        a  == Indicators(lt, template_a_patterns, Len(template_a_patterns))
        b  == Indicators(lt, template_b_patterns, Len(template_b_patterns))
    IN  <<[name |-> "Retail Receipt (Template A)", confidence |-> 200 * Len(a),
           indicators |-> a \o b, supported |-> TRUE],
          [name |-> "Professional Invoice (Template B)",
           confidence |-> 125 * Len(b), indicators |-> a \o b,
           supported |-> FALSE],
          [name |-> "Unknown Format", confidence |-> 0,
           indicators |-> << >>, supported |-> FALSE]>>

\* the formats dictionary after both scoring loops, in declaration order
ScoredFormats(text) ==
    LET lt == Lower(text)
        a  == Indicators(lt, template_a_patterns, Len(template_a_patterns))
        b  == Indicators(lt, template_b_patterns, Len(template_b_patterns))
    IN  <<[name |-> "Retail Receipt (Template A)", confidence |-> 200 * Len(a),
           indicators |-> a, supported |-> TRUE],
          [name |-> "Professional Invoice (Template B)",
           confidence |-> 125 * Len(b), indicators |-> b, supported |-> FALSE],
          [name |-> "Unknown Format", confidence |-> 0,
           indicators |-> << >>, supported |-> FALSE]>>

\* the last entry of maximal key instead of the first
BestFormatLast(scored) ==
    scored[CHOOSE k \in 1..Len(scored) :
               /\ \A j \in 1..Len(scored) :
                      scored[j].confidence <= scored[k].confidence
               /\ \A j \in (k + 1)..Len(scored) :
                      scored[j].confidence < scored[k].confidence]

\* max(formats.items(), key=confidence): the first entry of maximal key
BestFormat(scored) ==
    scored[Min({k \in 1..Len(scored) :
                  \A j \in 1..Len(scored) :
                      scored[j].confidence <= scored[k].confidence})]

\* the threshold test against 20 instead of 30
BelowThresholdTwenty(format) == format.confidence < 200

\* best_format[1]['confidence'] < 30
BelowThreshold(format) == format.confidence < 300

detect_invoice_format(text) ==
    LET scored == ScoredFormats(text)
        best   == BestFormat(scored)
    IN  IF BelowThreshold(best) THEN scored[3] ELSE best

(***************************************************************************)
(* The run of one invoice, in the order of the "Extract Data" handler:     *)
(* detect the format, extract, validate, score.  An exception raised by a  *)
(* step ends the run in the handler's except clause.                       *)
(***************************************************************************)
Detect ==
    /\ pc = "ocr"
    /\ formats' = ScoredFormats(ocr_text)
    /\ format_info' = Some(detect_invoice_format(ocr_text))
    /\ session_state' = WithKey(session_state, "format_info", format_info'[1])
    /\ stages' = Append(stages, "classify")
    /\ pc' = "detected"
    /\ UNCHANGED <<ocr_text, corrected_text, extracted_data, item_log,
                   warnings, confidence, error>>
    /\ UNCHANGED <<uploaded_file, clicks, batch_state, calls_state>>

Extract ==
    /\ pc = "detected"
    /\ corrected_text' = Some(normalize_ocr_errors(ocr_text))
    /\ stages' = stages \o <<"normalize", "extract">>
    /\ \E r \in {extract_receipt_fields_v3(ocr_text)} :
           IF r.raised
           THEN /\ pc' = "raised"
                /\ error' = Some(r.error)
                /\ UNCHANGED <<extracted_data, item_log>>
           ELSE /\ pc' = "extracted"
                /\ extracted_data' = Some(r.data)
                /\ item_log' = ItemLog(corrected_text'[1])
                /\ UNCHANGED error
    /\ UNCHANGED <<ocr_text, formats, format_info, warnings, confidence>>
    /\ UNCHANGED callers

Validate ==
    /\ pc = "extracted"
    /\ stages' = Append(stages, "validate")
    /\ \E raised \in {ValidationError(extracted_data[1])} :
           IF raised # None
           THEN /\ pc' = "raised"
                /\ error' = raised
                /\ UNCHANGED warnings
           ELSE /\ pc' = "validated"
                /\ warnings' = validate_extraction(extracted_data[1])
                /\ UNCHANGED error
    /\ UNCHANGED <<ocr_text, corrected_text, formats, format_info,
                   extracted_data, item_log, confidence>>
    /\ UNCHANGED callers

\* the scorer writing its result into the record it was given
ScoreStoringResult ==
    /\ pc = "validated"
    /\ confidence' = calculate_confidence_score(extracted_data[1])
    /\ extracted_data' =
           Some([extraction_confidence |-> confidence'] @@ extracted_data[1])
    /\ stages' = Append(stages, "score")
    /\ pc' = "scored"
    /\ UNCHANGED <<ocr_text, corrected_text, formats, format_info, item_log,
                   warnings, error>>
    /\ UNCHANGED callers

Score ==
    /\ pc = "validated"
    /\ confidence' = calculate_confidence_score(extracted_data[1])
    /\ stages' = Append(stages, "score")
    /\ pc' = "scored"
    /\ UNCHANGED <<ocr_text, corrected_text, formats, format_info,
                   extracted_data, item_log, warnings, error>>
    /\ UNCHANGED callers

\* the handler stores the score and the warnings in the record
Assemble ==
    /\ pc = "scored"
    /\ extracted_data' =
           Some([extraction_confidence |-> confidence,
                 validation_warnings |-> warnings] @@ extracted_data[1])
    /\ pc' = "assembled"
    /\ UNCHANGED <<ocr_text, corrected_text, stages, formats, format_info,
                   item_log, warnings, confidence, error>>
    /\ UNCHANGED callers

(***************************************************************************)
(* Input texts.  A receipt is printed as: receipt line, date line, bill-to *)
(* block, table header, rows, total line, payment line.                    *)
(***************************************************************************)
MaxQuantity == 3

MaxOffset == 2

UnitPrices == {0, 50, 1000, 15000}

TableHeader == "Item Description Quantity Unit Price Total\n"

RowLine(description, quantity, unit, total) ==
    description \o " " \o DigitStr(quantity) \o " $" \o CentsStr(unit)
    \o " $" \o CentsStr(total) \o "\n"

\* rows whose printed total is off the product by -MaxOffset..MaxOffset cents
NumericRows ==
    {RowLine("Widget", q, u, q * u + d) :
        <<q, u, d>> \in {t \in (0..MaxQuantity) \X UnitPrices
                                \X ((0 - MaxOffset)..MaxOffset) :
                            t[1] * t[2] + t[3] >= 0}}

OtherRows ==
    {"", "Gadget 2 $0.50 $1.00\n", "Widget J $15O.00 $150.00\n"}

TableTexts ==
    {"Receipt #77\n" \o TableHeader \o first \o second
       \o "Total Amount: $30.00\n" :
        <<first, second>> \in NumericRows \X OtherRows}

ReceiptLines == {"", "Receipt #4521\n"}

DateLines == {"", "March 15, 2050\n"}

BillToBlocks == {"", "Bill To: John Smith\njohn@mail.com\n"}

TotalLines ==
    {"", "Total Amount: $150.00\n", "Total Amount: $0.00\n",
     "Total Amount: ,\n"}

PaymentLines == {"", "Payment Method: Credit Card\n", "Payment Method: "}

FieldTexts ==
    {r \o d \o b \o TableHeader
       \o "Premium Software Subscription 1 $150.00 $150.00\n" \o t \o p :
        <<r, d, b, t, p>> \in ReceiptLines \X DateLines \X BillToBlocks
                               \X TotalLines \X PaymentLines}

EdgeTexts == {"", "Total Amount: ,\n", "Receipt #4521\nTotal Amount: ,.\n"}

Texts == TableTexts \cup FieldTexts \cup EdgeTexts

Init ==
    /\ pc = "ocr"
    /\ ocr_text \in Texts
    /\ corrected_text = None
    /\ stages = << >>
    /\ formats = << >>
    /\ format_info = None
    /\ extracted_data = None
    /\ item_log = << >>
    /\ warnings = << >>
    /\ confidence = 0
    /\ error = None
    /\ InitCallers

Next == Detect \/ Extract \/ Validate \/ Score \/ Assemble

Spec == Init /\ [][Next]_vars

(***************************************************************************)
(* Properties of the extraction run (specification Spec).                  *)
(***************************************************************************)
Extracted == pc \in {"extracted", "validated", "scored", "assembled"}

Validated == pc \in {"validated", "scored", "assembled"}

\* quantity * unit_price - total of a row, in cents as printed
RowOffset(row) == row.quantity * row.unit_price.c - row.total.c

\* C1: for every input text, the empty text and a 'Total Amount:' label
\* followed only by separators included, extract_receipt_fields_v3 returns a
\* record and never raises; the field without a usable value is None and
\* the other fields are still extracted.
C1_ExtractNeverRaises ==
    pc \notin {"ocr", "detected"} =>
        /\ error = None
        /\ extracted_data # None
        /\ Contains(ocr_text, "Total Amount: ,") =>
               /\ extracted_data[1].total_amount = None
               /\ Contains(ocr_text, "Receipt #4521") =>
                      extracted_data[1].receipt_number = Some("4521")

\* C2: every LineItem of the items list has |quantity * unit_price - total|
\* <= 0.01, both as the printed amounts and as the floats compare, with
\* quantity, unit_price and total all >= 0.
C2_ItemArithmetic ==
    Extracted =>
        \A k \in 1..Len(extracted_data[1].items) :
            LET item == extracted_data[1].items[k]
            IN  /\ RowOffset(item) \in -1..1
                /\ ~FloatLess(Tolerance,
                              FloatAbsDiff(FloatMulInt(item.quantity,
                                                       item.unit_price),
                                           item.total))
                /\ item.quantity >= 0
                /\ item.unit_price.c >= 0
                /\ item.total.c >= 0

\* a LineItem whose total is one cent off the product was accepted
C2_Witness ==
    /\ Extracted
    /\ \E k \in 1..Len(extracted_data[1].items) :
           RowOffset(extracted_data[1].items[k]) \in {-1, 1}

\* C3: a row of the table that matches the row shape is accepted as a
\* LineItem if and only if |quantity * unit_price - total| <= 0.01: a row
\* one cent off is accepted, a row further off is discarded.
C3_AcceptedIffWithinCent ==
    \A k \in 1..Len(item_log) :
        item_log[k].kind \in {"item", "math_error"} =>
            (item_log[k].kind = "item" <=> RowOffset(item_log[k].row) \in -1..1)

Scenario1Text ==
    "Receipt #4521\nMarch 15, 2050\n" \o TableHeader
    \o "Premium Software Subscription 1 $150.00 $150.00\n"
    \o "Total Amount: $150.00\nPayment Method: Credit Card\n"

IsSumWarning(w) == At(w, 1, "Line items sum")

\* what scenario 1 extracts, apart from the score
Scenario1Extraction ==
    /\ extracted_data[1].receipt_number = Some("4521")
    /\ extracted_data[1].date = Some("March 15, 2050")
    /\ Len(extracted_data[1].items) = 1
    /\ extracted_data[1].items[1].quantity = 1
    /\ extracted_data[1].items[1].unit_price = FloatOfCents(15000)
    /\ extracted_data[1].items[1].total = FloatOfCents(15000)
    /\ extracted_data[1].total_amount = Some(FloatOfCents(15000))
    /\ \A k \in 1..Len(warnings) : ~IsSumWarning(warnings[k])

\* C7: the scenario-1 text (receipt 4521, March 15, 2050, one row 1 x 150.00
\* = 150.00, total 150.00, Credit Card, no bill-to block) yields those
\* fields, exactly one LineItem, no sum-mismatch warning, and a score of
\* 72.5: 20 + 20 + 20 + 10 for the four fields found and 2.5 for the item.
C7_Scenario1 ==
    (pc = "scored" /\ ocr_text = Scenario1Text) =>
        Scenario1Extraction /\ confidence = 725

C7_Witness ==
    pc = "scored" /\ ocr_text = Scenario1Text /\ warnings = << >>

\* C7 as stated: the same run scores at least 90
C7_Scenario1AsStated ==
    (pc = "scored" /\ ocr_text = Scenario1Text) =>
        Scenario1Extraction /\ confidence >= 900

(***************************************************************************)
(* The same run over texts that vary the layout (specification             *)
(* SpecLayouts): header, footer and rows in any arrangement of up to       *)
(* MaxLines lines.                                                         *)
(***************************************************************************)
MaxLines == 3

LayoutLines ==
    {"Item Description Quantity\n", "Total Amount: $5.00\n",
     "Widget 1 $5.00 $5.00\n", "Gadget 1 $6.00 $6.00\n"}

ArrangedTexts ==
    UNION {{Concat(pieces) : pieces \in [1..n -> LayoutLines]} :
              n \in 0..MaxLines}

\* a 'Payment Method:' label, what follows it on its line, and a later line
PaymentTexts ==
    {label \o rest \o later :
        <<label, rest, later>> \in
            {"Payment Method:", "Receipt #9\nPAYMENT METHOD:"}
            \X {"", " ", "  Cash ", " Credit Card"}
            \X {"", "\n", "\nThank you\n", " \n\n  Visit again  \nbye"}}

\* two rows and a footer stating the sum of the two totals as printed
ReconciledRows ==
    {[line |-> "", total |-> 0],
     [line |-> "Widget 3 $10.00 $30.00\n", total |-> 3000],
     [line |-> "Widget 3 $10.00 $35.00\n", total |-> 3500],
     [line |-> "Gadget 1 $0.00 $0.02\n", total |-> 2],
     [line |-> "Gadget 2 $0.50 $1.00\n", total |-> 100]}

ReconciledTexts ==
    {TableHeader \o first.line \o second.line \o "Total Amount: $"
       \o CentsStr(first.total + second.total) \o "\n" :
        <<first, second>> \in ReconciledRows \X ReconciledRows}

\* one row of quantity 1 with the quantity printed as mark
QuantityRowText(description, gap, mark, unit) ==
    TableHeader \o description \o gap \o mark \o gap \o unit \o " $5.00\n"
    \o "Total Amount: $5.00\n"

RowDescriptions == {"Widget", "Old Oak", "Total Care Plan"}

RowGaps == {" ", "  "}

RowUnits == {"$5.00", "5.00"}

QuantityRowTexts ==
    {QuantityRowText(description, gap, mark, unit) :
        <<description, gap, mark, unit>> \in
            RowDescriptions \X RowGaps \X {"1", "J", "l", "I"} \X RowUnits}

LayoutTexts ==
    ArrangedTexts \cup PaymentTexts \cup ReconciledTexts
    \cup QuantityRowTexts
    \cup {"Receipt #1\nPaid $5 on 11/O2/2019\nBILL TO\nSHIP TO\n"}

InitLayouts ==
    /\ pc = "ocr"
    /\ ocr_text \in LayoutTexts
    /\ corrected_text = None
    /\ stages = << >>
    /\ formats = << >>
    /\ format_info = None
    /\ extracted_data = None
    /\ item_log = << >>
    /\ warnings = << >>
    /\ confidence = 0
    /\ error = None
    /\ InitCallers

SpecLayouts == InitLayouts /\ [][Next]_vars

\* the stripped, non-empty lines among lines[a..b], in order
RECURSIVE BodyLines(_, _, _)
BodyLines(lines, a, b) ==
    IF a > b THEN << >>
    ELSE (IF Strip(lines[a]) = "" THEN << >> ELSE <<Strip(lines[a])>>)
         \o BodyLines(lines, a + 1, b)

\* the table body as the claim C16 has it: after the first header line, up
\* to the next footer line after it, or to the end of the text
ClaimedBody(lines) ==
    LET headers == {h \in 1..Len(lines) : IsHeaderLine(lines[h])}
        first   == Min(headers)
        footers == {f \in (first + 1)..Len(lines) : IsFooterLine(lines[f])}
    IN  IF headers = {} THEN << >>
        ELSE BodyLines(lines, first + 1,
                       IF footers = {} THEN Len(lines) ELSE Min(footers) - 1)

\* C16: extract_line_items parses exactly the lines strictly after the
\* first line with both 'Item Description' and 'Quantity' and strictly
\* before the next line after it with 'Total Amount:', wherever other
\* header or 'Total Amount:' lines stand in the text.
C16_TableRegion ==
    Extracted =>
        [k \in 1..Len(item_log) |-> item_log[k].line]
            = ClaimedBody(SplitLines(corrected_text[1]))

\* what follows the first 'Payment Method:' label on the label's own line
LabelLineRest(text) ==
    LET lt    == Lower(text)
        label == Min({i \in 1..Len(lt) : At(lt, i, "payment method:")})
        from  == label + Len("payment method:")
        stop  == IndexFrom(text, from, "\n")
    IN  SubSeq(text, from, IF stop = 0 THEN Len(text) ELSE stop - 1)

\* C17: when the text has the label 'Payment Method:' in any case,
\* payment_method is the rest of the label's own line, trimmed (nothing at
\* all when only whitespace follows the label); it never holds text of a
\* later line.
C17_PaymentOwnLine ==
    (Extracted /\ Contains(Lower(ocr_text), "payment method:")) =>
        LET rest == Strip(LabelLineRest(corrected_text[1]))
        IN  IF rest = ""
            THEN extracted_data[1].payment_method \in {None, Some("")}
            ELSE extracted_data[1].payment_method = Some(rest)

Dropped == {k \in 1..Len(item_log) : item_log[k].kind = "math_error"}

Accepted == {k \in 1..Len(item_log) : item_log[k].kind = "item"}

RECURSIVE PrintedTotal(_)
PrintedTotal(rows) ==
    IF rows = {} THEN 0
    ELSE LET k == CHOOSE k \in rows : TRUE
         IN  item_log[k].row.total.c + PrintedTotal(rows \ {k})

\* the stated total is the sum of the totals of all rows as printed
Reconciled ==
    /\ Validated
    /\ extracted_data[1].total_amount # None
    /\ extracted_data[1].total_amount[1].c = PrintedTotal(Dropped \cup Accepted)

HasSumWarning == \E k \in 1..Len(warnings) : IsSumWarning(warnings[k])

\* C18: a row that fails the arithmetic check is dropped, and no warning is
\* about that row.  When the stated total is the sum of all printed row
\* totals, the line-items-sum warning is given if a row was accepted and
\* the dropped rows' totals exceed 0.01, and is not given if no row was
\* dropped or none was accepted; with the only row dropped, items is empty
\* and there is no item-table warning.
C18_DroppedRows ==
    Reconciled =>
        /\ Len(extracted_data[1].items) = Cardinality(Accepted)
        /\ \A k \in 1..Len(warnings) :
               \A d \in Dropped : ~Contains(warnings[k], item_log[d].line)
        /\ (Accepted # {} /\ PrintedTotal(Dropped) > 1) => HasSumWarning
        /\ (Accepted = {} \/ PrintedTotal(Dropped) = 0) => ~HasSumWarning
        /\ Accepted = {} => extracted_data[1].items = << >>

\* validated: one row accepted, one dropped, and the sum warning given
C18_Witness ==
    /\ Reconciled
    /\ Accepted # {}
    /\ Dropped # {}
    /\ HasSumWarning

\* C18 as stated: with the stated total equal to the sum of the printed
\* row totals there is no line-items-sum warning, rows dropped or not
C18_NoWarningAsStated ==
    Reconciled =>
        /\ ~HasSumWarning
        /\ Accepted = {} => extracted_data[1].items = << >>

\* the items of the run are those of the same text with the quantity
\* printed as 1, for every row of the descriptions given
SameItemsAsClean(descriptions, units) ==
    \A description \in descriptions, gap \in RowGaps, unit \in units,
       mark \in {"J", "l", "I"} :
        (Extracted
         /\ ocr_text = QuantityRowText(description, gap, mark, unit)) =>
            /\ extracted_data[1].items =
                   extract_receipt_fields_v3(
                       QuantityRowText(description, gap, "1", unit)).data.items
            /\ Len(extracted_data[1].items) = 1

\* C19: for a valid row of quantity 1 whose line does not begin with
\* 'Total' and whose unit price carries the '$', printing the quantity as a
\* stray J, l or I gives exactly the items of the uncorrupted row.
C19_StrayQuantity ==
    SameItemsAsClean(RowDescriptions \ {"Total Care Plan"}, {"$5.00"})

C19_Witness ==
    /\ Extracted
    /\ ocr_text = QuantityRowText("Old Oak", "  ", "l", "$5.00")
    /\ Len(extracted_data[1].items) = 1
    /\ extracted_data[1].items[1].quantity = 1

\* C19 as stated: the same for every valid row of quantity 1
C19_StrayQuantityAsStated == SameItemsAsClean(RowDescriptions, RowUnits)

IsPrefix(short, long) ==
    Len(short) <= Len(long) /\ short = SubSeq(long, 1, Len(short))

\* C20: in every run the stages go normalize, extract, classify, validate,
\* score, and the classifier is given the normalizer's corrected text, the
\* text the extractor sees.
C20_StageOrder ==
    /\ IsPrefix(stages,
                <<"normalize", "extract", "classify", "validate", "score">>)
    /\ format_info # None =>
           format_info =
               Some(detect_invoice_format(normalize_ocr_errors(ocr_text)))

(***************************************************************************)
(* Records handed to validate_extraction and calculate_confidence_score    *)
(* directly: every field absent, empty or filled, and 0..MaxItems items.   *)
(***************************************************************************)
MaxItems == 5

RecordItem ==
    [description |-> "Widget", quantity |-> 1,
     unit_price |-> FloatOfCents(4999), total |-> FloatOfCents(4999)]

RecordItems(n) == [i \in 1..n |-> RecordItem]

\* the total_amount values tried against n items: absent, zero, a round
\* figure, the items' sum to the cent, and one and two cents above it
RecordTotals(n) ==
    {None, Some(FloatZero), Some(FloatOfCents(10000))}
    \cup {Some(FloatOfCents(n * RecordItem.total.c + d)) : d \in 0..2}

Record(r, d, m, e, p, n, t) ==
    [receipt_number |-> r, date |-> d, bill_to |-> [name |-> m, email |-> e],
     items |-> RecordItems(n), total_amount |-> t, payment_method |-> p,
     ocr_corrections_applied |-> TRUE]

InitRecords ==
    /\ pc = "extracted"
    /\ ocr_text = ""
    /\ corrected_text = None
    /\ stages = << >>
    /\ formats = << >>
    /\ format_info = None
    /\ \E r \in {None, Some(""), Some("4521")},
          d \in {None, Some("March 15, 2050"), Some("May 1, 1999")},
          m \in {None, Some("John Smith")},
          e \in {None, Some("john@mail.com"), Some("john-at-mail"),
                 Some("john@mail"), Some("john.mail")},
          p \in {None, Some(""), Some("Cash")},
          n \in 0..MaxItems :
          \E t \in RecordTotals(n) :
              extracted_data = Some(Record(r, d, m, e, p, n, t))
    /\ item_log = << >>
    /\ warnings = << >>
    /\ confidence = 0
    /\ error = None
    /\ InitCallers

NextRecords == Validate \/ Score

SpecRecords == InitRecords /\ [][NextRecords]_vars

(***************************************************************************)
(* Properties of the validator and the scorer (specification SpecRecords). *)
(* Scores are in tenths of a point: 1000 is 100, 25 is 2.5.                *)
(***************************************************************************)
WeightIf(present, weight) == IF present THEN weight ELSE 0

\* S of the claim C4: the weights of the fields whose value is truthy
PresenceSum(data) ==
    WeightIf(data.receipt_number \notin {None, Some("")}, 200)
    + WeightIf(data.date \notin {None, Some("")}, 200)
    + WeightIf(data.bill_to.name \notin {None, Some("")}, 150)
    + WeightIf(data.bill_to.email \notin {None, Some("")}, 150)
    + WeightIf(data.total_amount \notin {None, Some(FloatOfCents(0))}, 200)
    + WeightIf(data.payment_method \notin {None, Some("")}, 100)

\* B of the claim C4: min(2.5 * number of items, 10)
BonusOf(data) == Min({25 * Len(data.items), 100})

\* C4: calculate_confidence_score returns min(100, S + B), S the weights of
\* the truthy fields (20, 20, 15, 15, 20, 10) and B = min(2.5 * items, 10);
\* a total_amount of 0 or an empty-string field contributes nothing.
C4_ScoreFormula ==
    pc = "scored" =>
        confidence = Min({1000, PresenceSum(extracted_data[1])
                                + BonusOf(extracted_data[1])})

\* scored: a record with a total_amount of 0, an empty string and items
C4_Witness ==
    /\ pc = "scored"
    /\ extracted_data[1].total_amount = Some(FloatOfCents(0))
    /\ extracted_data[1].receipt_number = Some("")
    /\ extracted_data[1].date # None
    /\ Len(extracted_data[1].items) = 3
    /\ confidence = 275

\* C5: for every record the score satisfies 0 <= score <= 100.
C5_ScoreBound == pc = "scored" => (0 <= confidence /\ confidence <= 1000)

\* scored: all six fields present and items on top, so the sum passes 100
C5_Witness ==
    /\ pc = "scored"
    /\ PresenceSum(extracted_data[1]) + BonusOf(extracted_data[1]) > 1000
    /\ confidence = 1000

\* the scalar fields of the record whose value is absent, empty or zero
AbsentScalars(data) ==
    {f \in {"receipt_number", "date", "payment_method"} :
        data[f] \in {None, Some("")}}
    \cup {f \in {"name", "email"} : data.bill_to[f] \in {None, Some("")}}
    \cup (IF data.total_amount \in {None, Some(FloatZero)}
          THEN {"total_amount"} ELSE {})

\* C29: calculate_confidence_score returns exactly 100 if and only if all
\* six scalar fields are present (truthy), or payment_method is the only
\* absent scalar field and the record has at least 4 items; in every other
\* case the score is strictly below 100.
C29_FullScore ==
    pc = "scored" =>
        LET absent == AbsentScalars(extracted_data[1])
            full   == \/ absent = {}
                      \/ /\ absent = {"payment_method"}
                         /\ Len(extracted_data[1].items) >= 4
        IN  /\ full => confidence = 1000
            /\ ~full => confidence < 1000

\* scored 100 without a payment method, on the strength of four items
C29_Witness ==
    /\ pc = "scored"
    /\ AbsentScalars(extracted_data[1]) = {"payment_method"}
    /\ Len(extracted_data[1].items) = 4
    /\ confidence = 1000

\* C6: for every record the score is an integer, records with 1 or 3 items
\* included.
C6_ScoreIsInteger == pc = "scored" => confidence % 10 = 0

SumWarningCount ==
    Cardinality({k \in 1..Len(warnings) : IsSumWarning(warnings[k])})

\* C10: with a non-empty items list and a total_amount that is not None,
\* whatever its value, validate_extraction gives exactly one line-items-sum
\* warning if |sum of item totals - total_amount| > 0.01 and none otherwise;
\* items summing to 99.98 against 100.00 give one, items sum first.
C10_SumWarning ==
    (/\ Validated
     /\ Len(extracted_data[1].items) > 0
     /\ extracted_data[1].total_amount # None) =>
        LET items == extracted_data[1].items
            total == extracted_data[1].total_amount[1]
            off   == FloatAbsDiff(SumTotals(items, Len(items)), total)
        IN  /\ SumWarningCount = IF FloatLess(Tolerance, off) THEN 1 ELSE 0
            /\ (Len(items) = 2 /\ total = FloatOfCents(10000)) =>
                   \E k \in 1..Len(warnings) : warnings[k] =
                       "Line items sum ($99.98) doesn't match total ($100.00)"

IsEmailWarning(w) == At(w, 1, "Email might be invalid")

HasBoth(email) ==
    (\E i \in 1..Len(email) : Ch(email, i) = "@")
    /\ (\E i \in 1..Len(email) : Ch(email, i) = ".")

\* C11: for a record whose bill-to email is present, validate_extraction
\* gives one email warning, quoting the email, when the email does not have
\* both an '@' and a '.' (none of them, or only one), and gives no email
\* warning when it has both anywhere.
C11_EmailWarning ==
    (Validated /\ extracted_data[1].bill_to.email \notin {None, Some("")}) =>
        LET email == extracted_data[1].bill_to.email[1]
            found == {k \in 1..Len(warnings) : IsEmailWarning(warnings[k])}
        IN  IF HasBoth(email) THEN found = {}
            ELSE /\ Cardinality(found) = 1
                 /\ \A k \in found :
                        warnings[k] = "Email might be invalid: " \o email

\* validated: an email with an '@' but no '.', and its warning
C11_Witness ==
    /\ Validated
    /\ extracted_data[1].bill_to.email = Some("john@mail")
    /\ \E k \in 1..Len(warnings) : IsEmailWarning(warnings[k])

\* C12: validate_extraction and calculate_confidence_score leave the
\* record they are given unchanged: after either call every field (scalars,
\* bill_to, the items and their order) is what it was before the call.
C12_RecordUnchanged ==
    [][(pc \in {"extracted", "validated"})
           => (extracted_data' = extracted_data)]_vars

\* both calls made on a record with several items, warnings returned
C12_Witness ==
    /\ pc = "scored"
    /\ Len(extracted_data[1].items) >= 2
    /\ Len(warnings) >= 2
    /\ confidence > 0

(***************************************************************************)
(* Records of any shape handed to validate_extraction: each key carried or *)
(* not, each value null or filled, bill_to null, without email, or whole.  *)
(***************************************************************************)
RecordKeys ==
    {"receipt_number", "date", "bill_to", "items", "total_amount",
     "payment_method"}

Shape(keys, d, b, n, t) ==
    [k \in keys |->
        [receipt_number |-> Some("4521"), date |-> d, bill_to |-> b,
         items |-> RecordItems(n), total_amount |-> t,
         payment_method |-> Some("Cash")][k]]

InitShapes ==
    /\ pc = "extracted"
    /\ ocr_text = ""
    /\ corrected_text = None
    /\ stages = << >>
    /\ formats = << >>
    /\ format_info = None
    /\ \E keys \in SUBSET RecordKeys,
          d \in {None, Some("May 1, 1999")},
          b \in {None, [name |-> Some("John Smith")],
                 [name |-> None, email |-> None],
                 [name |-> None, email |-> Some("john-at-mail")]},
          n \in 0..1,
          t \in {None, Some(FloatOfCents(10000))} :
          extracted_data = Some(Shape(keys, d, b, n, t))
    /\ item_log = << >>
    /\ warnings = << >>
    /\ confidence = 0
    /\ error = None
    /\ InitCallers

NextShapes == Validate

SpecShapes == InitShapes /\ [][NextShapes]_vars

IsDateWarning(w) == At(w, 1, "Unusual year in date")

\* the record carries the key with a value that is not null
Filled(data, key) == HasKey(data, key) /\ data[key] # None

\* C13: validate_extraction returns a warning list without raising for
\* every record shape, optional fields, the items list or bill_to absent or
\* null included, and the list has no warning about an absent field.
C13_ValidateNeverRaises ==
    /\ pc # "raised"
    /\ pc = "validated" =>
           \A k \in 1..Len(warnings) :
               /\ IsEmailWarning(warnings[k]) =>
                      /\ Filled(extracted_data[1], "bill_to")
                      /\ Filled(extracted_data[1].bill_to, "email")
               /\ IsDateWarning(warnings[k]) => Filled(extracted_data[1], "date")
               /\ IsSumWarning(warnings[k]) =>
                      /\ Filled(extracted_data[1], "items")
                      /\ Filled(extracted_data[1], "total_amount")

(***************************************************************************)
(* The normalizer on its own (specification SpecNormalize): texts are made *)
(* of up to MaxTokens pieces that its patterns react to; it is run once,   *)
(* and once more on what it returned.                                      *)
(***************************************************************************)
MaxTokens == 4

NoiseTokens == {" J", " l", "I", " $", "O", "\t", "Total", "\n"}

Normalize ==
    /\ pc = "ocr"
    /\ corrected_text' = Some(normalize_ocr_errors(ocr_text))
    /\ stages' = Append(stages, "normalize")
    /\ pc' = "normalized"
    /\ UNCHANGED <<ocr_text, formats, format_info, extracted_data, item_log,
                   warnings, confidence, error>>
    /\ UNCHANGED callers

\* the corrected text is handed to the normalizer again
Renormalize ==
    /\ pc = "normalized"
    /\ ocr_text' = corrected_text[1]
    /\ corrected_text' = Some(normalize_ocr_errors(corrected_text[1]))
    /\ stages' = Append(stages, "normalize")
    /\ pc' = "renormalized"
    /\ UNCHANGED <<formats, format_info, extracted_data, item_log, warnings,
                   confidence, error>>
    /\ UNCHANGED callers

InitNormalize ==
    /\ pc = "ocr"
    /\ \E n \in 0..MaxTokens :
           \E pieces \in [1..n -> NoiseTokens] : ocr_text = Concat(pieces)
    /\ corrected_text = None
    /\ stages = << >>
    /\ formats = << >>
    /\ format_info = None
    /\ extracted_data = None
    /\ item_log = << >>
    /\ warnings = << >>
    /\ confidence = 0
    /\ error = None
    /\ InitCallers

NextNormalize == Normalize \/ Renormalize

SpecNormalize == InitNormalize /\ [][NextNormalize]_vars

\* C14: normalize_ocr_errors is idempotent: run on its own result it
\* returns that result.
C14_Idempotent == pc = "renormalized" => corrected_text = Some(ocr_text)

\* run twice on a text in which the first run rewrote a letter and an O
C14_Witness ==
    /\ pc = "renormalized"
    /\ Contains(ocr_text, " 1 $")
    /\ Contains(ocr_text, "0")

\* a J, l or I with whitespace before it and whitespace, then '$', after it
IsolatedBeforeMarker(line, i) ==
    /\ Ch(line, i) \in {"J", "l", "I"}
    /\ i > 1
    /\ Ch(line, i - 1) \in Whitespace
    /\ SkipClass(line, i + 1, Whitespace) > i + 1
    /\ Ch(line, SkipClass(line, i + 1, Whitespace)) = "$"

\* the line with nothing changed but the letters the claim C15 names
OnlyLettersChanged(line) ==
    Concat([i \in 1..Len(line) |->
               IF IsolatedBeforeMarker(line, i) THEN "1"
               ELSE IF /\ Ch(line, i) = "O"
                       /\ \E d \in 1..(i - 1) : Ch(line, d) = "$"
               THEN "0"
               ELSE Ch(line, i)])

\* C15: normalize_ocr_errors keeps the number and order of lines, returns a
\* line without '$' or beginning with 'Total' unchanged, and in any other
\* line changes only an isolated J/l/I before a '$' into 1 and the O's
\* after the first '$' into 0; every other character, whitespace included,
\* stays as it was.
C15_OnlyLettersChanged ==
    pc = "normalized" =>
        LET before == SplitLines(ocr_text)
            after  == SplitLines(corrected_text[1])
        IN  /\ Len(after) = Len(before)
            /\ \A k \in 1..Len(before) :
                   after[k] = IF IsCandidateLine(before[k])
                              THEN OnlyLettersChanged(before[k])
                              ELSE before[k]

\* the substitution made only for the letter that stands before the first
\* '$' of the line
FirstMarkerFix(line) ==
    LET d    == IndexFrom(line, 1, "$")
        hits == {a \in 1..Len(line) : QuantityLetterEnd(line, a) = d}
    IN  IF d = 0 \/ hits = {} THEN line
        ELSE SubSeq(line, 1, Min(hits) - 1) \o " 1 $"
             \o SubSeq(line, d + 1, Len(line))

\* C24: in a candidate line normalize_ocr_errors rewrites a J/l/I token to 1
\* only when it stands before the first '$' of the line; an isolated J/l/I
\* before a later '$' of the same line is left as it is.
C24_FirstMarkerOnly ==
    pc = "normalized" =>
        LET before == SplitLines(ocr_text)
            after  == SplitLines(corrected_text[1])
        IN  \A k \in 1..Len(before) :
                IsCandidateLine(before[k]) =>
                    after[k] = FixPrices(FirstMarkerFix(before[k]))

(***************************************************************************)
(* Texts for the classifier: any choice of lines out of a catalog in which *)
(* every indicator of both templates occurs.                               *)
(***************************************************************************)
FormatLines ==
    <<"Receipt #4521\n", "March 15, 2050\n", "RECEIPT DATE 11/02/2019\n",
      "BILL TO\n", "SHIP TO\n", "East Repair Inc.\n",
      "Item Description Quantity Unit Price Total\n", "QTY DESCRIPTION\n",
      "UNIT PRICE\n", "Total Amount: $150.00\n", "Payment Method: Cash\n">>

RECURSIVE PickLines(_, _)
PickLines(chosen, n) ==
    IF n > Len(FormatLines) THEN ""
    ELSE (IF n \in chosen THEN FormatLines[n] ELSE "")
         \o PickLines(chosen, n + 1)

FormatTexts == {PickLines(chosen, 1) : chosen \in SUBSET (1..Len(FormatLines))}

InitFormat ==
    /\ pc = "ocr"
    /\ ocr_text \in FormatTexts
    /\ corrected_text = None
    /\ stages = << >>
    /\ formats = << >>
    /\ format_info = None
    /\ extracted_data = None
    /\ item_log = << >>
    /\ warnings = << >>
    /\ confidence = 0
    /\ error = None
    /\ InitCallers

NextFormat == Detect

SpecFormat == InitFormat /\ [][NextFormat]_vars

(***************************************************************************)
(* Properties of the classifier (specification SpecFormat).  formats[1] is *)
(* Template A, formats[2] Template B, formats[3] the unknown format.       *)
(***************************************************************************)
UnknownFormat ==
    [name |-> "Unknown Format", confidence |-> 0, indicators |-> << >>,
     supported |-> FALSE]

\* C8: when each template's summed weight is below 30, that is at most one
\* Template A indicator and at most two Template B indicators, the result
\* is 'Unknown Format', unsupported, confidence 0, no indicators; the text
\* without any label is such a text.
C8_BelowThresholdUnknown ==
    pc = "detected" =>
        /\ (Len(formats[1].indicators) <= 1 /\ Len(formats[2].indicators) <= 2)
               <=> (formats[1].confidence < 300 /\ formats[2].confidence < 300)
        /\ (formats[1].confidence < 300 /\ formats[2].confidence < 300)
               => format_info = Some(UnknownFormat)
        /\ ocr_text = "" => format_info = Some(UnknownFormat)

\* detected: the nominal winner had two indicators, which were discarded
C8_Witness ==
    /\ pc = "detected"
    /\ Len(formats[1].indicators) = 1
    /\ Len(formats[2].indicators) = 2
    /\ format_info = Some(UnknownFormat)

Scenario5Text == "BILL TO\nEast Repair Inc.\nQTY DESCRIPTION\nUNIT PRICE\n"

\* C9: when some template scores at least 30 the result is the template of
\* maximal summed weight, Template A on equal weights; the text with only
\* BILL TO, QTY DESCRIPTION, UNIT PRICE and East Repair gives Template B,
\* unsupported, with those four indicators in catalog order.
C9_MaximumWins ==
    pc = "detected" =>
        /\ (formats[1].confidence >= 300 \/ formats[2].confidence >= 300)
               => format_info =
                      Some(IF formats[1].confidence >= formats[2].confidence
                           THEN formats[1] ELSE formats[2])
        /\ ocr_text = Scenario5Text =>
               /\ format_info[1].name = "Professional Invoice (Template B)"
               /\ ~format_info[1].supported
               /\ format_info[1].indicators =
                      <<"BILL TO (uppercase)", "QTY DESCRIPTION header",
                        "UNIT PRICE column", "East Repair Inc.">>

\* detected: both templates at the same weight of at least 30, A returned
C9_Witness ==
    /\ pc = "detected"
    /\ formats[1].confidence = formats[2].confidence
    /\ formats[1].confidence >= 300
    /\ format_info[1].name = "Retail Receipt (Template A)"

\* the indicator labels of a template's patterns
LabelsOf(patterns) == {patterns[k].indicator : k \in 1..Len(patterns)}

\* the entries of a sequence, as a set
Range(seq) == {seq[k] : k \in 1..Len(seq)}

\* C30: every result of detect_invoice_format is Template A, supported, with
\* confidence 20 for each of its at least 2 indicators, or Template B,
\* unsupported, with confidence 12.5 for each of its at least 3 indicators,
\* or 'Unknown Format' with confidence 0 and no indicators; so confidence
\* is 0 or within 30..100, and the indicators are labels of one template.
C30_ResultShape ==
    pc = "detected" =>
        LET result == format_info[1]
        IN  /\ CASE result.name = "Retail Receipt (Template A)" ->
                       /\ result.confidence = 200 * Len(result.indicators)
                       /\ Len(result.indicators) >= 2
                       /\ result.supported
                       /\ Range(result.indicators)
                              \subseteq LabelsOf(template_a_patterns)
                 [] result.name = "Professional Invoice (Template B)" ->
                       /\ result.confidence = 125 * Len(result.indicators)
                       /\ Len(result.indicators) >= 3
                       /\ ~result.supported
                       /\ Range(result.indicators)
                              \subseteq LabelsOf(template_b_patterns)
                 [] OTHER -> result = UnknownFormat
            /\ \/ result.confidence = 0
               \/ (300 <= result.confidence /\ result.confidence <= 1000)

\* detected: Template B returned on three indicators, with Template A
\* indicators found in the same text
C30_Witness ==
    /\ pc = "detected"
    /\ format_info[1].name = "Professional Invoice (Template B)"
    /\ Len(format_info[1].indicators) = 3
    /\ Len(formats[1].indicators) = 1

(***************************************************************************)
(* The Streamlit page (specification SpecApp): an image is uploaded, the   *)
(* 'Extract Data' button runs the handler, the results view is drawn from  *)
(* st.session_state, and the page is used again.  An image is given by     *)
(* whether it can be opened and by what the OCR engine makes of it.        *)
(***************************************************************************)
MaxClicks == 2

WarnedText ==
    "Receipt #7\n" \o TableHeader \o "Widget 1 $5.00 $5.00\n"
    \o "Total Amount: $9.00\nPayment Method: Cash\n"

RaisingText ==
    "Receipt #4521\nMarch 15, 2050\nTotal Amount: ,\nPayment Method: Cash\n"

Image(readable, ocr) == [readable |-> readable, ocr |-> ocr]

Images ==
    {Image(FALSE, None), Image(TRUE, None)}
    \cup {Image(TRUE, Some(text)) :
             text \in {Scenario1Text, Scenario5Text, WarnedText, RaisingText}}

\* the file uploader and Image.open, outside the handler's try block
Upload ==
    /\ pc = "idle"
    /\ Len(clicks) < MaxClicks
    /\ \E file \in Images :
           /\ uploaded_file' = Some(file)
           /\ IF file.readable
              THEN pc' = "uploaded" /\ error' = None
              ELSE pc' = "crashed" /\ error' = Some("UnidentifiedImageError")
    /\ UNCHANGED <<ocr_text, corrected_text, stages, formats, format_info,
                   extracted_data, item_log, warnings, confidence,
                   session_state, clicks, batch_state, calls_state>>

\* the button pressed: the handler's locals are new, the OCR is run
Click ==
    /\ pc = "uploaded"
    /\ clicks' = Append(clicks, "running")
    /\ corrected_text' = None
    /\ stages' = << >>
    /\ formats' = << >>
    /\ format_info' = None
    /\ extracted_data' = None
    /\ item_log' = << >>
    /\ warnings' = << >>
    /\ confidence' = 0
    /\ IF uploaded_file[1].ocr = None
       THEN /\ pc' = "raised"
            /\ error' = Some("TesseractError")
            /\ ocr_text' = ""
       ELSE /\ pc' = "ocr"
            /\ error' = None
            /\ ocr_text' = uploaded_file[1].ocr[1]
    /\ UNCHANGED <<uploaded_file, session_state, batch_state, calls_state>>

\* the record, the text and the count stored in the session state
Store ==
    /\ pc = "assembled"
    /\ session_state' =
           WithKey(WithKey(WithKey(session_state,
                                   "extracted_data", extracted_data[1]),
                           "ocr_text", ocr_text),
                   "processed_count", session_state.processed_count + 1)
    /\ clicks' = [clicks EXCEPT ![Len(clicks)] = "completed"]
    /\ pc' = "stored"
    /\ UNCHANGED <<ocr_text, corrected_text, stages, formats, format_info,
                   extracted_data, item_log, warnings, confidence, error,
                   uploaded_file, batch_state, calls_state>>

\* except Exception as e: st.error(...)
Except ==
    /\ pc = "raised"
    /\ clicks' = [clicks EXCEPT ![Len(clicks)] = "raised"]
    /\ pc' = "reported"
    /\ UNCHANGED <<ocr_text, corrected_text, stages, formats, format_info,
                   extracted_data, item_log, warnings, confidence, error,
                   uploaded_file, session_state, batch_state, calls_state>>

\* the results view: guarded by 'format_info', it reads extracted_data
Display ==
    /\ pc \in {"stored", "reported"}
    /\ IF /\ HasKey(session_state, "format_info")
          /\ ~HasKey(session_state, "extracted_data")
       THEN pc' = "crashed" /\ error' = Some("AttributeError")
       ELSE pc' = "idle" /\ UNCHANGED error
    /\ UNCHANGED <<ocr_text, corrected_text, stages, formats, format_info,
                   extracted_data, item_log, warnings, confidence, callers>>

\* after an exception no handler caught, the page is run again
Rerun ==
    /\ pc = "crashed"
    /\ pc' = "idle"
    /\ UNCHANGED <<ocr_text, corrected_text, stages, formats, format_info,
                   extracted_data, item_log, warnings, confidence, error,
                   callers>>

InitApp ==
    /\ pc = "idle"
    /\ ocr_text = ""
    /\ corrected_text = None
    /\ stages = << >>
    /\ formats = << >>
    /\ format_info = None
    /\ extracted_data = None
    /\ item_log = << >>
    /\ warnings = << >>
    /\ confidence = 0
    /\ error = None
    /\ InitCallers

NextApp ==
    \/ Upload
    \/ Click
    \/ Detect
    \/ Extract
    \/ Validate
    \/ Score
    \/ Assemble
    \/ Store
    \/ Except
    \/ Display
    \/ Rerun

SpecApp == InitApp /\ [][NextApp]_vars

\* the handler is not running: the page waits or draws the results
AtRest == pc \in {"idle", "uploaded", "stored", "reported"}

\* C27: after any sequence of uploads and clicks, each of which may succeed
\* or raise inside the try block, session_state.format_info and
\* session_state.extracted_data are both absent or both present and
\* computed from the same OCR text, so the results view never reads a
\* missing extracted_data nor shows one invoice's format beside another's
\* fields; processed_count is the number of clicks that completed without
\* exception.
C27_SessionConsistent ==
    /\ AtRest =>
           /\ HasKey(session_state, "format_info")
                  <=> HasKey(session_state, "extracted_data")
           /\ HasKey(session_state, "extracted_data") =>
                  /\ session_state.format_info =
                         detect_invoice_format(session_state.ocr_text)
                  /\ \E r \in {extract_receipt_fields_v3(
                                    session_state.ocr_text)} :
                         /\ ~r.raised
                         /\ \A k \in DOMAIN r.data :
                                session_state.extracted_data[k] = r.data[k]
           /\ session_state.processed_count =
                  Cardinality({k \in 1..Len(clicks) :
                                  clicks[k] = "completed"})
    /\ ~(pc = "crashed" /\ error = Some("AttributeError"))

(***************************************************************************)
(* The batch runner (specification SpecBatch): process_all_invoices finds  *)
(* the images of the input directory, runs process_single_invoice on each  *)
(* and writes the summary report.  processing_time is counted in ticks,    *)
(* one for the OCR attempt and one for every stage run after it.           *)
(***************************************************************************)
MaxImages == 3

File(name, image) == [name |-> name, image |-> image]

\* the files the input directory may hold, no two of the same name
Files ==
    {File("a.jpg", Image(TRUE, Some(Scenario1Text))),
     File("b.PNG", Image(TRUE, Some(WarnedText))),
     File("c.jpeg", Image(FALSE, None)),
     File("d.jpg", Image(TRUE, Some(RaisingText))),
     File("e.png", Image(TRUE, None)),
     File("notes.txt", Image(FALSE, None))}

image_extensions == <<"*.jpg", "*.jpeg", "*.png", "*.JPG", "*.PNG">>

EndsWith(s, suffix) ==
    /\ Len(suffix) <= Len(s)
    /\ SubSeq(s, Len(s) - Len(suffix) + 1, Len(s)) = suffix

\* fnmatch on a '*<suffix>' pattern; fold is os.path.normcase lower-casing
\* the pattern and the name, as it does where paths ignore case
GlobMatches(name, pattern, fold) ==
    LET suffix == SubSeq(pattern, 2, Len(pattern))
    IN  /\ Ch(name, 1) # "."
        /\ IF fold THEN EndsWith(Lower(name), Lower(suffix))
           ELSE EndsWith(name, suffix)

\* glob.glob(os.path.join(input_dir, ext)): the matching files, as listed
Glob(files, pattern, fold) ==
    LET Matching(file) == GlobMatches(file.name, pattern, fold)
    IN  SelectSeq(files, Matching)

\* image_files.extend(glob.glob(...)) for the first n extensions
RECURSIVE FindImages(_, _, _)
FindImages(files, n, fold) ==
    IF n = 0 THEN << >>
    ELSE FindImages(files, n - 1, fold)
         \o Glob(files, image_extensions[n], fold)

\* the failed result when the time is taken inside the try block only
FailedRunUntimed(file, text, exception, run_stages) ==
    [result |-> [filename |-> file.name, status |-> "failed", data |-> None,
                 error |-> Some(exception), processing_time |-> 0],
     ocr_text |-> text, stages |-> run_stages, error |-> Some(exception)]

\* the result of a run that ended in the except clause
FailedRun(file, text, exception, run_stages) ==
    [result |-> [filename |-> file.name, status |-> "failed", data |-> None,
                 error |-> Some(exception),
                 processing_time |-> 1 + Len(run_stages)],
     ocr_text |-> text, stages |-> run_stages, error |-> Some(exception)]

\* the try block from 'Step 2' on, r being what the extractor did with
\* the text; saved tells whether the structured JSON could be written
ExtractValidateSave(file, text, r, saved) ==
    IF r.raised
    THEN FailedRun(file, text, r.error, <<"normalize", "extract">>)
    ELSE IF ValidationError(r.data) # None
    THEN FailedRun(file, text, ValidationError(r.data)[1],
                   <<"normalize", "extract", "validate">>)
    ELSE IF ~saved
    THEN FailedRun(file, text, "OSError",
                   <<"normalize", "extract", "validate", "score">>)
    ELSE [result |->
              [filename |-> file.name,
               status |-> IF validate_extraction(r.data) = << >>
                          THEN "success" ELSE "success_with_warnings",
               data |-> Some([extraction_confidence |->
                                  calculate_confidence_score(r.data),
                              validation_warnings |->
                                  validate_extraction(r.data),
                              source_file |-> file.name,
                              processed_at |-> "now"] @@ r.data),
               error |-> None,
               processing_time |-> 5],
          ocr_text |-> text,
          stages |-> <<"normalize", "extract", "validate", "score">>,
          error |-> None]

\* process_single_invoice on one image file
process_single_invoice(file, saved) ==
    IF ~file.image.readable
    THEN FailedRun(file, "", "cv2.error", << >>)
    ELSE IF file.image.ocr = None
    THEN FailedRun(file, "", "TesseractError", << >>)
    ELSE ExtractValidateSave(
             file, file.image.ocr[1],
             extract_receipt_fields_v3(file.image.ocr[1]), saved)

\* sum(1 for r in results if r['status'] == status)
CountStatus(rs, status) ==
    Cardinality({k \in 1..Len(rs) : rs[k].status = status})

\* sum(r['processing_time'] for r in results)
RECURSIVE TotalTime(_)
TotalTime(rs) ==
    IF rs = << >> THEN 0 ELSE rs[1].processing_time + TotalTime(Tail(rs))

\* the summary dictionary; the average divides by len(results)
generate_summary_report(rs) ==
    IF Len(rs) = 0 THEN [raised |-> TRUE, error |-> "ZeroDivisionError"]
    ELSE [raised |-> FALSE,
          total_invoices |-> Len(rs),
          successful |-> CountStatus(rs, "success"),
          with_warnings |-> CountStatus(rs, "success_with_warnings"),
          failed |-> CountStatus(rs, "failed"),
          average_processing_time |-> TotalTime(rs) \div Len(rs),
          details |-> [k \in 1..Len(rs) |->
                          [filename |-> rs[k].filename,
                           status |-> rs[k].status,
                           error |-> rs[k].error]]]

\* the globbing of the input directory and the test for no images
FindImageFiles ==
    /\ pc = "batch"
    /\ \E fold \in BOOLEAN :
           image_files' = FindImages(input_dir, Len(image_extensions), fold)
    /\ pc' = IF image_files' = << >> THEN "returned" ELSE "looping"
    /\ UNCHANGED <<ocr_text, corrected_text, stages, formats, format_info,
                   extracted_data, item_log, warnings, confidence, error,
                   uploaded_file, session_state, clicks, input_dir, results,
                   summary, calls_state>>

\* one pass of the loop over image_files
ProcessSingleInvoice ==
    /\ pc = "looping"
    /\ Len(results) < Len(image_files)
    /\ \E saved \in BOOLEAN :
           \E run \in {process_single_invoice(
                           image_files[Len(results) + 1], saved)} :
               /\ results' = Append(results, run.result)
               /\ ocr_text' = run.ocr_text
               /\ stages' = run.stages
               /\ error' = run.error
               /\ extracted_data' = run.result.data
    /\ UNCHANGED <<pc, corrected_text, formats, format_info, item_log,
                   warnings, confidence, uploaded_file, session_state,
                   clicks, input_dir, image_files, summary, calls_state>>

\* generate_summary_report(results, output_dir) after the loop
GenerateSummaryReport ==
    /\ pc = "looping"
    /\ Len(results) = Len(image_files)
    /\ \E report \in {generate_summary_report(results)} :
           IF report.raised
           THEN /\ pc' = "crashed"
                /\ error' = Some(report.error)
                /\ UNCHANGED summary
           ELSE /\ pc' = "summarized"
                /\ summary' = Append(summary, report)
                /\ UNCHANGED error
    /\ UNCHANGED <<ocr_text, corrected_text, stages, formats, format_info,
                   extracted_data, item_log, warnings, confidence,
                   uploaded_file, session_state, clicks, input_dir,
                   image_files, results, calls_state>>

\* the directory listings: up to MaxImages files, no file twice
Listings ==
    UNION {{files \in [1..n -> Files] :
               \A i, j \in 1..n : i # j => files[i] # files[j]} :
              n \in 0..MaxImages}

InitBatch ==
    /\ pc = "batch"
    /\ ocr_text = ""
    /\ corrected_text = None
    /\ stages = << >>
    /\ formats = << >>
    /\ format_info = None
    /\ extracted_data = None
    /\ item_log = << >>
    /\ warnings = << >>
    /\ confidence = 0
    /\ error = None
    /\ uploaded_file = << >>
    /\ session_state = [processed_count |-> 0]
    /\ clicks = << >>
    /\ input_dir \in Listings
    /\ image_files = << >>
    /\ results = << >>
    /\ summary = << >>
    /\ frames = << >>
    /\ returned = {}

NextBatch == FindImageFiles \/ ProcessSingleInvoice \/ GenerateSummaryReport

SpecBatch == InitBatch /\ [][NextBatch]_vars

\* C25: every result of process_single_invoice has status 'success',
\* 'success_with_warnings' or 'failed'; it is 'failed' iff error is not
\* null iff data is null, 'success' iff data is there with no validation
\* warnings, 'success_with_warnings' iff data is there with warnings; and
\* processing_time is set in all three cases.
C25_ResultStatus ==
    \A k \in 1..Len(results) :
        LET r == results[k]
        IN  /\ r.status \in {"success", "success_with_warnings", "failed"}
            /\ (r.status = "failed") <=> (r.error # None)
            /\ (r.error # None) <=> (r.data = None)
            /\ (r.status = "success") <=>
                   (r.data # None /\ r.data[1].validation_warnings = << >>)
            /\ (r.status = "success_with_warnings") <=>
                   (r.data # None /\ r.data[1].validation_warnings # << >>)
            /\ r.processing_time > 0

\* three invoices processed, one of each status
C25_Witness ==
    /\ Len(results) = 3
    /\ {results[k].status : k \in 1..3}
           = {"success", "success_with_warnings", "failed"}

\* the files of the directory that were found to be images, each once
ImagesOf(files) ==
    LET IsImage(file) == \E k \in 1..Len(image_files) : image_files[k] = file
    IN  SelectSeq(files, IsImage)

BatchOver == pc \in {"summarized", "returned", "crashed"}

\* C26: on a non-empty set of images process_all_invoices processes every
\* image exactly once, in discovery order, goes on after an image whose
\* processing failed, and then writes the summary report exactly once, with
\* successful + with_warnings + failed = total_invoices = the number of
\* images; with no images it returns without a report.
C26_EveryImageOnce ==
    /\ pc # "crashed"
    /\ BatchOver =>
           LET images == ImagesOf(input_dir)
           IN  IF images = << >>
               THEN results = << >> /\ summary = << >>
               ELSE /\ Len(results) = Len(images)
                    /\ \A i \in 1..Len(images) :
                           Cardinality({k \in 1..Len(results) :
                               results[k].filename = images[i].name}) = 1
                    /\ [k \in 1..Len(results) |-> results[k].filename]
                           = [k \in 1..Len(image_files) |->
                                 image_files[k].name]
                    /\ Len(summary) = 1
                    /\ summary[1].total_invoices = Len(images)
                    /\ summary[1].successful + summary[1].with_warnings
                           + summary[1].failed = summary[1].total_invoices

(***************************************************************************)
(* The two callers of the core side by side (specification SpecCallers):   *)
(* a behaviour is a session of the Streamlit page or a batch run.          *)
(***************************************************************************)
InitCallersRun == InitApp \/ InitBatch

NextCallers == NextApp \/ NextBatch

SpecCallers == InitCallersRun /\ [][NextCallers]_vars

\* the record has the score, the warnings and the FormatMatch of the text
IsFinalRecord(record, text) ==
    /\ HasKey(record, "extraction_confidence")
    /\ HasKey(record, "validation_warnings")
    /\ HasKey(record, "format_info")
    /\ \E r \in {extract_receipt_fields_v3(text)} :
           /\ ~r.raised
           /\ record.extraction_confidence =
                  calculate_confidence_score(r.data)
           /\ record.validation_warnings = validate_extraction(r.data)
           /\ \A k \in DOMAIN r.data : record[k] = r.data[k]
    /\ record.format_info = detect_invoice_format(text)

\* C21: the final record handed to the caller, by the page and by the batch
\* runner alike, holds besides the extracted fields extraction_confidence,
\* validation_warnings and the classifier's FormatMatch as format_info, all
\* computed from the same OCR text.
C21_FinalRecord ==
    /\ pc = "stored" =>
           IsFinalRecord(session_state.extracted_data, ocr_text)
    /\ \A k \in 1..Len(results) :
           results[k].data # None =>
               IsFinalRecord(results[k].data[1], image_files[k].image.ocr[1])

\* the image could not be loaded, or the OCR engine failed on it
UpstreamFailure(image) == ~image.readable \/ image.ocr = None

\* C23: when image loading or the OCR call fails for an invoice, the
\* orchestration layer catches the failure, none of
\* extract_receipt_fields_v3, validate_extraction and
\* calculate_confidence_score is invoked for that invoice, and the failure
\* is reported (status 'failed' with the error text in batch, an error
\* message on the page) instead of propagating.
C23_UpstreamFailureCaught ==
    /\ (pc \in {"crashed", "raised", "reported"}
        /\ uploaded_file # << >>
        /\ UpstreamFailure(uploaded_file[1])
        /\ error \in {Some("UnidentifiedImageError"),
                      Some("TesseractError")}) =>
           /\ pc # "crashed"
           /\ stages = << >>
    /\ (pc = "looping" /\ results # << >>
        /\ UpstreamFailure(image_files[Len(results)].image)) =>
           /\ stages = << >>
           /\ results[Len(results)].status = "failed"
           /\ results[Len(results)].error = error
           /\ error # None

(***************************************************************************)
(* Invocations of the five core functions in any order (specification      *)
(* SpecCalls).  Two threads may each be inside detect_invoice_format, which *)
(* is followed step by step with its local dictionary; the other functions  *)
(* run to their return between those steps.  returned keeps what every     *)
(* finished invocation was given and what it gave back.                    *)
(***************************************************************************)
Threads == {1, 2}

CallTexts ==
    {"Receipt #1\nTotal Amount: $5\n", "BILL TO\nSHIP TO\nUNIT PRICE\n"}

\* the formats dictionary as the literal at the head of the function has it
FreshFormats ==
    <<[name |-> "Retail Receipt (Template A)", confidence |-> 0,
       indicators |-> << >>, supported |-> TRUE],
      [name |-> "Professional Invoice (Template B)", confidence |-> 0,
       indicators |-> << >>, supported |-> FALSE],
      [name |-> "Unknown Format", confidence |-> 0,
       indicators |-> << >>, supported |-> FALSE]>>

\* the dictionary kept at module level: a call goes on from what the
\* previous call left
FormatsKeptAcrossCalls(previous) ==
    IF previous = << >> THEN FreshFormats ELSE previous

\* formats = {...}: a new dictionary at every call, whatever was left
FormatsAtEntry(previous) == FreshFormats

\* one scoring loop: weight and label added for every pattern found
ScoreTemplate(table, k, text, patterns, weight) ==
    LET found == Indicators(Lower(text), patterns, Len(patterns))
    IN  [table EXCEPT ![k].confidence = @ + weight * Len(found),
                      ![k].indicators = @ \o found]

Idle == [fn |-> "idle"]

Call(fn, input, output) == [fn |-> fn, input |-> input, output |-> output]

EnterDetect ==
    /\ pc = "calls"
    /\ \E t \in Threads, text \in CallTexts :
           /\ frames[t] = Idle
           /\ frames' = [frames EXCEPT ![t] =
                            [fn |-> "detect", text |-> text, at |-> "loop_a",
                             formats |-> FormatsAtEntry(formats)]]
    /\ UNCHANGED <<pc, ocr_text, corrected_text, stages, formats,
                   format_info, extracted_data, item_log, warnings,
                   confidence, error, uploaded_file, session_state, clicks,
                   batch_state, returned>>

ScanTemplateA ==
    /\ \E t \in Threads :
           /\ frames[t].fn = "detect"
           /\ frames[t].at = "loop_a"
           /\ frames' = [frames EXCEPT
                            ![t].formats =
                                ScoreTemplate(@, 1, frames[t].text,
                                              template_a_patterns, 200),
                            ![t].at = "loop_b"]
    /\ UNCHANGED <<pc, ocr_text, corrected_text, stages, formats,
                   format_info, extracted_data, item_log, warnings,
                   confidence, error, uploaded_file, session_state, clicks,
                   batch_state, returned>>

ScanTemplateB ==
    /\ \E t \in Threads :
           /\ frames[t].fn = "detect"
           /\ frames[t].at = "loop_b"
           /\ frames' = [frames EXCEPT
                            ![t].formats =
                                ScoreTemplate(@, 2, frames[t].text,
                                              template_b_patterns, 125),
                            ![t].at = "select"]
    /\ UNCHANGED <<pc, ocr_text, corrected_text, stages, formats,
                   format_info, extracted_data, item_log, warnings,
                   confidence, error, uploaded_file, session_state, clicks,
                   batch_state, returned>>

ReturnDetect ==
    /\ \E t \in Threads :
           /\ frames[t].fn = "detect"
           /\ frames[t].at = "select"
           /\ formats' = frames[t].formats
           /\ format_info' =
                  Some(IF BelowThreshold(BestFormat(formats'))
                       THEN formats'[3] ELSE BestFormat(formats'))
           /\ returned' = returned \cup
                  {Call("detect", frames[t].text, format_info'[1])}
           /\ frames' = [frames EXCEPT ![t] = Idle]
    /\ UNCHANGED <<pc, ocr_text, corrected_text, stages, extracted_data,
                   item_log, warnings, confidence, error, uploaded_file,
                   session_state, clicks, batch_state>>

\* what the two text functions give on the texts the calls pass
NormalizedText == [text \in CallTexts |-> normalize_ocr_errors(text)]

ExtractedFrom == [text \in CallTexts |-> extract_receipt_fields_v3(text)]

\* warnings = []: validate_extraction starts a new list at every call
WarningsAtEntry(previous) == << >>

CallNormalize ==
    /\ pc = "calls"
    /\ \E text \in CallTexts :
           returned' = returned \cup
               {Call("normalize", text, NormalizedText[text])}
    /\ UNCHANGED <<pc, ocr_text, corrected_text, stages, formats,
                   format_info, extracted_data, item_log, warnings,
                   confidence, error, uploaded_file, session_state, clicks,
                   batch_state, frames>>

CallExtract ==
    /\ pc = "calls"
    /\ \E text \in CallTexts :
           /\ ~ExtractedFrom[text].raised
           /\ returned' = returned \cup
                  {Call("extract", text, ExtractedFrom[text].data)}
    /\ UNCHANGED <<pc, ocr_text, corrected_text, stages, formats,
                   format_info, extracted_data, item_log, warnings,
                   confidence, error, uploaded_file, session_state, clicks,
                   batch_state, frames>>

\* validate_extraction on a record an earlier call extracted
CallValidate ==
    /\ pc = "calls"
    /\ \E call \in returned :
           /\ call.fn = "extract"
           /\ warnings' = WarningsAtEntry(warnings)
                              \o validate_extraction(call.output)
           /\ returned' = returned \cup
                  {Call("validate", call.output, warnings')}
    /\ UNCHANGED <<pc, ocr_text, corrected_text, stages, formats,
                   format_info, extracted_data, item_log, confidence, error,
                   uploaded_file, session_state, clicks, batch_state,
                   frames>>

\* calculate_confidence_score on a record an earlier call extracted
CallScore ==
    /\ pc = "calls"
    /\ \E call \in returned :
           /\ call.fn = "extract"
           /\ returned' = returned \cup
                  {Call("score", call.output,
                        calculate_confidence_score(call.output))}
    /\ UNCHANGED <<pc, ocr_text, corrected_text, stages, formats,
                   format_info, extracted_data, item_log, warnings,
                   confidence, error, uploaded_file, session_state, clicks,
                   batch_state, frames>>

InitCalls ==
    /\ pc = "calls"
    /\ ocr_text = ""
    /\ corrected_text = None
    /\ stages = << >>
    /\ formats = << >>
    /\ format_info = None
    /\ extracted_data = None
    /\ item_log = << >>
    /\ warnings = << >>
    /\ confidence = 0
    /\ error = None
    /\ uploaded_file = << >>
    /\ session_state = [processed_count |-> 0]
    /\ clicks = << >>
    /\ input_dir = << >>
    /\ image_files = << >>
    /\ results = << >>
    /\ summary = << >>
    /\ frames = [t \in Threads |-> Idle]
    /\ returned = {}

NextCalls ==
    \/ EnterDetect
    \/ ScanTemplateA
    \/ ScanTemplateB
    \/ ReturnDetect
    \/ CallNormalize
    \/ CallExtract
    \/ CallValidate
    \/ CallScore

SpecCalls == InitCalls /\ [][NextCalls]_vars

\* C22: for any fixed input each of normalize_ocr_errors,
\* extract_receipt_fields_v3, detect_invoice_format, validate_extraction and
\* calculate_confidence_score returns the same output at every invocation,
\* whatever other invocations ran before it or between its steps; no
\* indicator list or confidence accumulates across calls.
C22_SameOutputEveryCall ==
    \A a, b \in returned :
        (a.fn = b.fn /\ a.input = b.input) => a.output = b.output

\* a second detect call on a text is about to return while the other thread
\* is inside a call on the other text, every function having returned
C22_Witness ==
    /\ {call.fn : call \in returned}
           = {"normalize", "extract", "detect", "validate", "score"}
    /\ frames[1].fn = "detect"
    /\ frames[1].at = "select"
    /\ \E call \in returned :
           call.fn = "detect" /\ call.input = frames[1].text
    /\ frames[2].fn = "detect"
    /\ frames[2].at = "loop_b"
    /\ frames[2].text # frames[1].text
====
